---- MODULE Spec2Model ----
(***************************************************************************)
(* Metadata resolution and pinning pipeline of nft-static-data.            *)
(*                                                                         *)
(* One job (getStaticDataViaMirrors) walks the ledger pages; every NFT of  *)
(* a page is a processNFT unit run under the module-wide p-limit; a unit   *)
(* fetches its metadata (fetchIPFSJson), checks the CID cache              *)
(* (checkCIDExists), pins (pinIPFS) and the page's results are written in  *)
(* batches (writeStaticData / SchemaWriter.writeMetadata).                 *)
(*                                                                         *)
(* JavaScript runs the code between two awaits atomically, so every action *)
(* below is the code from one await to the next.  A string is a sequence   *)
(* of tokens (scheme, host, separator, identifier, file name); the regular *)
(* expressions of the source act on those tokens.                          *)
(***************************************************************************)
EXTENDS Integers, Sequences, FiniteSets, TLC

VARIABLES
    scenario,   \* which ledger the mirror node serves, and the dryRun flag
    job,        \* getStaticDataViaMirrors: position, page, fetchJson depth, results
    ctx,        \* ProcessingContext: counters, categorized errors, endTime
    unit,       \* processNFT, one per serial: position and locals
    cidMap,     \* tokenStaticDataHelper cidMap: identifiers cached as present
    cidSet,     \* filebaseHelper cidSet: identifiers seen live on the project gateway
    cidDB,      \* external CID record store: the identifiers it holds
    table,      \* external metadata table: serials persisted
    confirms,   \* confirmPin calls started by pinIPFS and not awaited
    obs,        \* requests sent to the external systems, results of pinIPFS
    faults,     \* failures the external systems have produced so far
    proc,       \* the node process: lifecycle, cache file, preload, direct calls
    jobs,       \* ProcessingContext instances and the GatewayManager objects
    context,    \* a ProcessingContext called directly: its error collections
    eval,       \* a pure helper called directly: its argument and what it returned
    gm          \* a GatewayManager, the clock, and the fetch attempt that uses it

\* the objects that are called directly, outside a run of the pipeline
direct == <<context, eval, gm>>

vars == <<scenario, job, ctx, unit, cidMap, cidSet, cidDB, table, confirms, obs, faults,
          proc, jobs, direct>>

(***************************************************************************)
(* Bounds of the model.                                                    *)
(***************************************************************************)
\* retry budget of fetchJson / fetchIPFSJson (config.processing.maxRetries is 18)
maxRetries == 2
\* p-limit width (config.processing.concurrentRequests is 10)
concurrentRequests == 2
\* items per createItems request (config.database.writeBatchSize is 50)
writeBatchSize == 2
\* the request counters of obs saturate here
MaxCount == 2
\* rejected requests (database, pinning service, unparsable body) per run
MaxFaults == 2

(***************************************************************************)
(* Strings as token sequences.                                             *)
(***************************************************************************)
NULL == "null"

\* 'Qm' + 44 base58 characters
CIDv0 == {"QmA", "QmB", "QmI"}
\* 'b' + 58 characters
CIDv1 == {"bafyC"}
\* 43 characters of [a-zA-Z0-9_-]
ArweaveIds == {"ArX"}
\* hosts matched by arweaveGatewayPattern
ArweaveHosts == {"arweave.net", "ar-io.dev", "permagate.io", "arweave.developerdao.com"}
\* tokens whose text contains 'ipfs' (case-insensitive)
IpfsText == {"ipfs://", "/ipfs/", ".ipfs.dweb.link", "ipfs.io"}

Min(a, b) == IF a < b THEN a ELSE b

Contains(s, t) == \E i \in 1..Len(s) : s[i] = t

Tail2(s, i) == SubSeq(s, i + 1, Len(s))

\* A string seen by the validators: how it begins (Qm, b, a for any other
\* character of [A-Za-z0-9_-], ! for a character outside, "" when empty), its
\* length, and the kinds of characters after that beginning: base58
\* characters, the alphanumerics 0 O I l that base58 leaves out, _ or -,
\* anything else.
CharKinds == {"base58", "0OIl", "_-", "other"}

HeadLen(h) == IF h = "Qm" THEN 2 ELSE IF h = "" THEN 0 ELSE 1

\* the named identifiers as strings
ShapeOf(t) ==
    CASE t \in CIDv0 -> [head |-> "Qm", len |-> 46, body |-> {"base58"}]
      [] t \in CIDv1 -> [head |-> "b", len |-> 59, body |-> {"base58"}]
      [] t \in ArweaveIds -> [head |-> "a", len |-> 43, body |-> {"base58", "_-"}]
      [] t = "" -> [head |-> "", len |-> 0, body |-> {}]
      [] t = NULL -> [head |-> "a", len |-> 4, body |-> {"base58", "0OIl"}]
      [] OTHER -> [head |-> "a", len |-> 7, body |-> {"base58", "other"}]

\* String(null) = 'null', String(undefined) = 'undefined': RegExp.test
\* converts its argument to a string
NullText == ShapeOf(NULL)
UndefinedText == [head |-> "a", len |-> 9, body |-> {"base58"}]

\* a pattern that lets any 58 characters follow the b
cidPatternAnyV1(s) ==
    \/ s.head = "Qm" /\ s.len = 46 /\ s.body \subseteq {"base58"}
    \/ s.head = "b" /\ s.len = 59

\* /^(Qm[1-9A-HJ-NP-Za-km-z]{44}|b[0-9A-Za-z]{58})$/
cidPattern(s) ==
    \/ s.head = "Qm" /\ s.len = 46 /\ s.body \subseteq {"base58"}
    \/ s.head = "b" /\ s.len = 59 /\ s.body \subseteq {"base58", "0OIl"}

\* /^[a-zA-Z0-9_-]{43}$/
arweavePattern(s) ==
    s.len = 43 /\ s.head \in {"Qm", "b", "a"} /\ s.body \subseteq {"base58", "0OIl", "_-"}

isValidCID(cid) == cidPattern(ShapeOf(cid))

isValidArweaveCID(cid) == arweavePattern(ShapeOf(cid))

\* metadataString.match(/ipfs:?\/\/?(.+)/i)[1], or the string itself when
\* there is no match: the text after the first 'ipfs://' or 'ipfs/'.
stripIpfsPrefix(s) ==
    LET T == {"ipfs://", "/ipfs/"}
        hit == {i \in 1..(Len(s) - 1) : s[i] \in T}
    IN  IF hit = {} THEN s
        ELSE Tail2(s, CHOOSE i \in hit : \A j \in hit : i <= j)

\* scheme tokens and the text each has before its first '/'
Schemes == {"ar://", "AR://", "ipfs://", "https://", "hcs://"}

SchemeHead(t) ==
    CASE t = "ar://" -> "ar:" [] t = "AR://" -> "AR:" [] t = "ipfs://" -> "ipfs:"
      [] t = "https://" -> "https:" [] OTHER -> "hcs:"

\* tokens that begin with '/'
Separators == {"/", "/ipfs/"}

\* a data URL, one token; the text before its first '/' is 'data:image'
DataUrl == "data:image/png;base64,iVBORw0KGgo="

\* tokens without a '.', a '/' or a ':'
Dotless == CIDv0 \cup CIDv1 \cup ArweaveIds \cup {"1", "abc", "notACid"}

\* url.toLowerCase() of a token
toLowerCase(t) == IF t = "AR://" THEN "ar://" ELSE t

\* the text of one token up to its first '/'
head(t) ==
    IF t \in Separators THEN ""
    ELSE IF t \in Schemes THEN SchemeHead(t)
    ELSE IF t = DataUrl THEN "data:image"
    ELSE t

\* s.split('/')[0]
firstSegment(s) == IF s = <<>> THEN "" ELSE head(s[1])

\* the last element of s.split('/')
lastSegment(s) ==
    IF s[Len(s)] \in Separators \cup Schemes THEN "" ELSE s[Len(s)]

\* lowerUrl.startsWith('ar://')
arPrefix(url) == toLowerCase(url[1]) = "ar://"

\* url.match(arweaveGatewayPattern): scheme, a known host, '/', one character
arGateway(url) ==
    /\ Len(url) >= 3
    /\ url[1] = "https://" /\ url[2] \in ArweaveHosts /\ url[3] \in Separators
    /\ url[3] = "/" => Len(url) >= 4

\* arweaveMatch[1].split('/')[0]
arGatewayId(url) == IF url[3] = "/ipfs/" THEN "ipfs" ELSE firstSegment(Tail2(url, 3))

\* lowerUrl.startsWith('ipfs://')
ipfsPrefix(url) == toLowerCase(url[1]) = "ipfs://"

\* the positions where /\/ipfs\/([^/?#]+)/i matches
ipfsPathHits(url) ==
    {i \in 1..(Len(url) - 1) : url[i] = "/ipfs/" /\ url[i + 1] \notin Separators}

\* ipfsMatch[1] of the leftmost match
ipfsPathId(url) ==
    head(url[(CHOOSE i \in ipfsPathHits(url) : \A j \in ipfsPathHits(url) : i <= j) + 1])

\* url.match(/^https?:\/\/([^.]+)\.ipfs\.[^/]+/i)
subdomain(url) ==
    Len(url) >= 3 /\ url[1] = "https://" /\ url[2] \in Dotless /\ url[3] = ".ipfs.dweb.link"

\* lowerUrl.includes('hcs://')
hcs(url) == Contains(url, "hcs://")

\* the bare CID patterns /^Qm[1-9A-HJ-NP-Za-km-z]{44}$/ and /^b[a-z2-7]{58}$/i
\* on url.split('/')[0]; the named CIDv1 identifiers are base32 strings
bareCID(url) == firstSegment(url) \in CIDv0 \cup CIDv1

\* extractCIDFromUrl with the /ipfs/ path rule tried before the ar:// prefix
extractPathFirst(url) ==
    IF url = NULL \/ url = <<>> THEN NULL
    ELSE IF ipfsPathHits(url) /= {} THEN ipfsPathId(url)
    ELSE IF arPrefix(url) THEN firstSegment(Tail(url))
    ELSE IF arGateway(url) THEN arGatewayId(url)
    ELSE IF ipfsPrefix(url) THEN firstSegment(Tail(url))
    ELSE IF subdomain(url) THEN url[2]
    ELSE IF hcs(url) THEN lastSegment(url)
    ELSE IF bareCID(url) THEN firstSegment(url)
    ELSE NULL

extractCIDFromUrl(url) ==
    IF url = NULL \/ url = <<>> THEN NULL
    ELSE IF arPrefix(url) THEN firstSegment(Tail(url))
    ELSE IF arGateway(url) THEN arGatewayId(url)
    ELSE IF ipfsPrefix(url) THEN firstSegment(Tail(url))
    ELSE IF ipfsPathHits(url) /= {} THEN ipfsPathId(url)
    ELSE IF subdomain(url) THEN url[2]
    ELSE IF hcs(url) THEN lastSegment(url)
    ELSE IF bareCID(url) THEN firstSegment(url)
    ELSE NULL

(***************************************************************************)
(* The ledger served by the mirror node, and the run's parameters.         *)
(***************************************************************************)
Serials == 1..4

CIDs == CIDv0 \cup CIDv1

\* a string that matches neither the CID patterns nor the Arweave pattern
NotACid == "notACid"

\* the strings pinIPFS and confirmPin are called with
Identifiers == CIDs \cup {NotACid}

ImgI == <<"ipfs://", "QmI">>

LedgerA ==
    [s \in Serials |->
        CASE s = 1 -> [page |-> 1, deleted |-> FALSE, image |-> ImgI,
                       metadata |-> <<"ipfs://", "QmB", "/", "1.json">>]
          [] s = 2 -> [page |-> 1, deleted |-> FALSE, image |-> ImgI,
                       metadata |-> <<"ar://", "ArX">>]
          [] s = 3 -> [page |-> 2, deleted |-> FALSE, image |-> ImgI,
                       metadata |-> <<"https://", "ipfs.io", "/ipfs/", "bafyC">>]
          [] s = 4 -> [page |-> 2, deleted |-> FALSE, image |-> NULL,
                       metadata |-> <<"ipfs://", "QmA", "/", "4.json">>]]

LedgerB ==
    [s \in Serials |->
        CASE s = 1 -> [page |-> 1, deleted |-> FALSE, image |-> ImgI,
                       metadata |-> <<"https://", "QmA", ".ipfs.dweb.link", "/", "1.json">>]
          [] s = 2 -> [page |-> 1, deleted |-> FALSE, image |-> NULL,
                       metadata |-> <<"hcs://", "1", "/", "0.0.999">>]
          [] s = 3 -> [page |-> 2, deleted |-> TRUE, image |-> ImgI,
                       metadata |-> <<"ipfs://", "QmA", "/", "3.json">>]
          [] s = 4 -> [page |-> 2, deleted |-> FALSE, image |-> NULL,
                       metadata |-> <<"https://", "example.com", "/", "4.json">>]]

Ledger == IF scenario.ledger = "A" THEN LedgerA ELSE LedgerB

\* allTokenSerials: the serials already in the metadata table (in ledger B
\* serial 3 was stored before it was burned)
allTokenSerials == {3}

PageUnits(p) == {s \in Serials : Ledger[s].page = p}

\* the page whose links.next is null
LastPage == CHOOSE p \in {Ledger[s].page : s \in Serials} :
                \A s \in Serials : Ledger[s].page <= p

\* nfts.filter(nft => !nft.deleted && !allTokenSerials.includes(nft.serial_number))
nftsToProcess(p) == {s \in PageUnits(p) : ~Ledger[s].deleted /\ s \notin allTokenSerials}

Categories == {"fetchMetadata", "pinMetadata", "pinImage", "databaseWrite",
               "gatewayTimeout", "invalidCID", "other"}

(***************************************************************************)
(* State after module load and before getStaticDataViaMirrors is called.   *)
(***************************************************************************)
Unit0 ==
    [pc |-> "idle",        \* position in processNFT and its callees
     depth |-> 0,          \* fetchIPFSJson depth: attempts made
     phase |-> "none",     \* which call of pinIPFS: failed, meta, img
     cid |-> NULL,         \* argument of the running checkCIDExists / pinIPFS
     ret |-> "none",       \* where the running callee returns to
     cond |-> FALSE,       \* what checkCIDExists returned
     via |-> "none",       \* gatewayType of the attempt
     known |-> FALSE,      \* checkCIDExists(metadataCID) of this attempt
     probe |-> 0,          \* status checkPinHttp returned (0: none / undefined)
     pinRes |-> "none",    \* what the pinning service answered to the POST
     exhausted |-> FALSE,  \* fetchIPFSJson reached depth >= max
     fetched |-> "none",   \* how fetchIPFSJson settled: doc, null, rejected
                           \* (res.json() rejected), threw (a callee threw)
     out |-> "none"]       \* what processNFT resolved to: none, record

\* the caller of the exported functions outside a job (bulk upload, tests)
Callers == {1}

\* no call made yet
Call0 == [op |-> "none", id |-> NULL, n |-> 0]

\* preloadCIDCacheFromDB not running: its locals page and totalLoaded, the
\* identifiers the run added to cidMap, what it returned (-1: nothing yet),
\* and how many runs were started
Preload0 == [pc |-> "idle", page |-> 0, totalLoaded |-> 0, added |-> {}, ret |-> -1, runs |-> 0]

\* a fresh process: loadCIDCache() of module load is started and not awaited;
\* file is the set of entries the cache file parses to (empty: no file yet,
\* or one JSON.parse rejects); snap is the snapshot a writeFile carries
Proc0 ==
    [phase |-> "running",  \* running, int_mkdir, int_write (SIGINT handler), ended
     load |-> "pending",
     file |-> {},
     snap |-> {},
     pre |-> Preload0,
     calls |-> [s \in Callers |-> Call0]]

\* config.ipfs.gateways
Gateways == {"gwA", "gwB"}

\* new GatewayManager(gateways, type): gateways.map(url => ({url, 0, 0, ...}))
GatewayStats0 == [g \in Gateways |-> [successCount |-> 0, failCount |-> 0]]

JobIds == {1, 2}

\* the fields of new ProcessingContext(options) before start()
Context0 ==
    [c |-> [totalCompleted |-> 0, totalToProcess |-> 0, actualTotal |-> 0,
            errors |-> [c \in Categories |-> [s \in Serials |-> 0]],
            started |-> FALSE, ended |-> FALSE],
     ipfsGatewayManager |-> 0, arweaveGatewayManager |-> 0]

\* no invocation yet: heap holds the GatewayManager objects by address
Jobs0 ==
    [made |-> {}, ctxs |-> [j \in JobIds |-> Context0], heap |-> <<>>,
     ops |-> [j \in JobIds |-> 0]]

\* getStaticDataViaMirrors not yet called: position, page, fetchJson depth,
\* the items still to be written and the items of a failed batch
Job0 == [pc |-> "init", page |-> 1, depth |-> 0, toWrite |-> <<>>, retry |-> <<>>]

\* nothing sent yet
Obs0 ==
    [pinPosts |-> [c \in Identifiers |-> 0],
     cidCreates |-> [c \in CIDs |-> 0],
     cidQueries |-> [c \in CIDs |-> 0],
     cidUpdated |-> FALSE,
     pinReturns |-> {},
     tableCreates |-> 0,
     sends |-> [s \in Serials |-> [batch |-> 0, single |-> 0, failed |-> FALSE]],
     handed |-> {}]

\* this.errors of the constructor: seven empty collections; calls counts the
\* recordCategorizedError calls since construction or the last start()
NewContext ==
    [errors |-> [c \in Categories |-> <<>>], errorSerials |-> <<>>, calls |-> 0]

\* no helper called
Eval0 == [fn |-> "none", arg |-> NULL, res |-> NULL, done |-> FALSE]

\* no GatewayManager constructed
Gm0 == [type |-> "none"]

\* the directly called objects as constructed
Idle == context = NewContext /\ eval = Eval0 /\ gm = Gm0

Init ==
    /\ Idle
    /\ scenario \in {[ledger |-> "A", dryRun |-> FALSE], [ledger |-> "B", dryRun |-> TRUE]}
    /\ job = Job0
    /\ ctx = [totalCompleted |-> 0, totalToProcess |-> 0, actualTotal |-> 0,
              errors |-> [c \in Categories |-> [s \in Serials |-> 0]],
              started |-> FALSE, ended |-> FALSE]
    /\ unit = [s \in Serials |-> Unit0]
    /\ cidMap = [c \in {} |-> TRUE]
    /\ cidSet = {}
    /\ cidDB = {"QmB"}
    /\ table = {}
    /\ confirms = {}
    /\ obs = Obs0
    /\ faults = 0
    /\ proc = Proc0
    /\ jobs = Jobs0

\* the state every specification starts from, but for the stores
Fresh ==
    /\ ctx = Context0.c
    /\ unit = [s \in Serials |-> Unit0]
    /\ cidMap = [c \in {} |-> TRUE]
    /\ cidSet = {}
    /\ table = {}
    /\ confirms = {}
    /\ obs = Obs0

Inc(n) == Min(n + 1, MaxCount)

\* the replies an external system may give: it may fail while the run's
\* failure budget lasts
Replies == IF faults < MaxFaults THEN BOOLEAN ELSE {TRUE}

Failing(outcomes, bad) == IF faults < MaxFaults THEN outcomes ELSE outcomes \ bad

Charge(failed) == faults' = IF failed THEN faults + 1 ELSE faults

(***************************************************************************)
(* Promise.all(promises) settles in the microtask after the last unit of   *)
(* the page resolved or the first one rejected: nothing else runs between. *)
(***************************************************************************)
SettlePending ==
    /\ job.pc = "awaiting"
    /\ \/ \E s \in PageUnits(job.page) : unit[s].pc = "rejected"
       \/ \A s \in PageUnits(job.page) : unit[s].pc = "resolved"

Running(s) == unit[s].pc \notin {"idle", "queued", "resolved", "rejected"}

\* p-limit: activeCount
activeCount == Cardinality({s \in Serials : Running(s)})

\* p-limit starts a queued unit as soon as a slot is free, in a microtask:
\* before any reply or timer is handled
StartPending ==
    /\ activeCount < concurrentRequests
    /\ \E s \in Serials : unit[s].pc = "queued"

MicrotaskPending == SettlePending \/ StartPending

\* the process has not ended: its handlers still run
Alive == proc.phase /= "ended"

(***************************************************************************)
(* A unit runs from one reply (of a gateway, the database, the pinning     *)
(* service, a timer) to its next request.  An await of a call that         *)
(* returned without a request resumes in the same microtask checkpoint, so *)
(* the code after it belongs to the same step.  st is the state the step   *)
(* works on: u the unit, c the context, m cidMap, f the started confirms,  *)
(* o the observations.                                                     *)
(***************************************************************************)
\* the else-if chain of fetchIPFSJson below the two identifier tests
gatewayTypeOf(ipfsUrl) ==
    IF Contains(ipfsUrl, "hcs://") THEN "hcs"
    ELSE IF ~\E i \in 1..Len(ipfsUrl) : ipfsUrl[i] \in IpfsText THEN "direct"
    ELSE "ipfs"

\* the argument processNFT passes to fetchIPFSJson
ipfsString(s) == stripIpfsPrefix(Ledger[s].metadata)

\* processNFT returned: its promise resolves to out (none: undefined)
Resolved(u, out) ==
    [Unit0 EXCEPT !.pc = "resolved", !.depth = u.depth, !.exhausted = u.exhausted,
                  !.fetched = u.fetched, !.out = out]

\* an exception left processNFT: its promise rejects.  While fetchIPFSJson
\* has not settled, the exception is fetchIPFSJson's own.
Rejected(u) ==
    [Unit0 EXCEPT !.pc = "rejected", !.depth = u.depth, !.exhausted = u.exhausted,
                  !.fetched = IF u.fetched = "none" THEN "threw" ELSE u.fetched]

\* a function called directly (not from processNFT) returned res
Returned(u, res) ==
    [Unit0 EXCEPT !.pc = "returned", !.cid = u.cid,
                  !.out = IF res THEN "true" ELSE "false"]

\* ctx.recordCategorizedError(category, {serial, ...})
recordCategorizedError(c, category, s) ==
    [c EXCEPT !.errors[category][s] = Inc(@)]

\* ctx.incrementCompleted()
incrementCompleted(c) == [c EXCEPT !.totalCompleted = @ + 1]

\* the live test with its lower bound exclusive: a 200 would count as not live
isPinLiveExclusive(status) == status > 200 /\ status < 300

\* isPinLive >= 200 && isPinLive < 300
isPinLive(status) == status >= 200 /\ status < 300

\* the value pinIPFS returns once nothing threw: 'return true' is its only
\* return statement
pinIPFSReturns(status, pinRes) == TRUE

\* what a call of pinIPFS met: the content live, or the reply to its POST
pinMet(status, pinRes) == IF isPinLive(status) THEN "live" ELSE pinRes

\* if (!await checkCIDExists(cid) && isValidCID(cid)): pin it
needsPin(u) == ~u.cond /\ isValidCID(u.cid)

RECURSIVE Run(_, _, _)
RECURSIVE checkCIDExists(_, _, _, _)

\* a variant of memoize that remembers every queried identifier as present
memoizeQueried(m, cid, found) == (cid :> TRUE) @@ m

\* checkCIDExists 406-414: an empty result returns false and leaves cidMap
\* alone, a found record is remembered: cidMap.set(cid, true)
memoize(m, cid, found) == IF found THEN (cid :> TRUE) @@ m ELSE m

\* confirmPin(_cid) up to its first await: an identifier isValidCID rejects
\* returns false at once, otherwise checkPinStatus(_cid) is sent
confirmPinStarts(cid) == isValidCID(cid)

(***************************************************************************)
(* checkCIDExists, up to its await: invalid identifiers and cache hits     *)
(* return at once, a miss sends the readItems query.                       *)
(***************************************************************************)
checkCIDExists(st, cid, ret, s) ==
    IF ~isValidCID(cid)
    THEN Run(ret, [st EXCEPT !.u.cid = cid, !.u.cond = FALSE], s)
    ELSE IF cid \in DOMAIN st.m
    THEN Run(ret, [st EXCEPT !.u.cid = cid, !.u.cond = st.m[cid]], s)
    ELSE [st EXCEPT !.u.cid = cid, !.u.ret = ret, !.u.pc = "ce_wait",
                    !.o.cidQueries[cid] = Inc(@)]

(***************************************************************************)
(* The code after an await, by the place it resumes at:                    *)
(*   f_classified  fetchIPFSJson after checkCIDExists of line 415          *)
(*   f_exhausted   fetchIPFSJson, depth >= max, after checkCIDExists       *)
(*   p_null        processNFT, metadataJSON == null                        *)
(*   p_json        processNFT line 194-198                                 *)
(*   p_meta        processNFT after checkCIDExists(metadataCID)            *)
(*   p_image       processNFT line 213-215                                 *)
(*   p_img         processNFT after checkCIDExists(imageCID)               *)
(*   p_done        processNFT line 229 to its return                       *)
(*   pn_start      pinIPFS entry: checkPinHttp answers from cidSet or asks *)
(*   pn_probed     pinIPFS after checkPinHttp: live branch, or axios.post  *)
(*   pn_live       pinIPFS live branch after checkCIDExists                *)
(*   pn_live2      pinIPFS live branch: confirmPin(_cid), not awaited      *)
(*   pn_ret        pinIPFS returned to its caller                          *)
(*   c_ret         checkCIDExists returned to a direct caller              *)
(***************************************************************************)
Run(k, st, s) ==
    CASE k = "f_classified" ->
            IF st.u.cond
            THEN [st EXCEPT !.u.via = "filebase", !.u.known = TRUE, !.u.pc = "f_wcd"]
            ELSE [st EXCEPT !.u.via = gatewayTypeOf(ipfsString(s)), !.u.pc = "f_attempt"]
      [] k = "f_exhausted" ->
            IF needsPin(st.u)
            THEN Run("pn_start", [st EXCEPT !.u.phase = "failed"], s)
            ELSE Run("p_null", st, s)
      [] k = "p_null" ->
            [st EXCEPT !.c = recordCategorizedError(st.c, "fetchMetadata", s),
                       !.u = Resolved([st.u EXCEPT !.fetched = "null"], "none")]
      [] k = "p_json" ->
            checkCIDExists([st EXCEPT !.u.fetched = "doc"],
                           extractCIDFromUrl(Ledger[s].metadata), "p_meta", s)
      [] k = "p_meta" ->
            IF needsPin(st.u)
            THEN Run("pn_start", [st EXCEPT !.u.phase = "meta"], s)
            ELSE Run("p_image", st, s)
      [] k = "p_image" ->
            checkCIDExists(st, extractCIDFromUrl(Ledger[s].image), "p_img", s)
      [] k = "p_img" ->
            IF needsPin(st.u)
            THEN Run("pn_start", [st EXCEPT !.u.phase = "img"], s)
            ELSE Run("p_done", st, s)
      [] k = "p_done" ->
            [st EXCEPT !.c = incrementCompleted(st.c), !.u = Resolved(st.u, "record")]
      [] k = "pn_start" ->
            IF st.u.cid \in cidSet
            THEN Run("pn_probed", [st EXCEPT !.u.probe = 200, !.u.pinRes = "none"], s)
            ELSE [st EXCEPT !.u.probe = 0, !.u.pinRes = "none", !.u.pc = "pn_probe"]
      [] k = "pn_probed" ->
            IF isPinLive(st.u.probe)
            THEN checkCIDExists(st, st.u.cid, "pn_live", s)
            ELSE [st EXCEPT !.u.pc = "pn_post", !.o.pinPosts[st.u.cid] = Inc(@)]
      [] k = "pn_live" ->
            IF ~st.u.cond
            THEN [st EXCEPT !.u.pc = "wcd_check", !.u.ret = "pn_live2"]
            ELSE Run("pn_live2", st, s)
      [] k = "pn_live2" ->
            [st EXCEPT !.f = IF confirmPinStarts(st.u.cid) THEN @ \cup {st.u.cid} ELSE @,
                       !.u.pc = "wcd_check", !.u.ret = "pn_ret"]
      [] k = "pn_ret" ->
            LET status == pinIPFSReturns(st.u.probe, st.u.pinRes)
                phase == st.u.phase
                err == IF phase = "meta" THEN "pinMetadata" ELSE "pinImage"
                back == [st EXCEPT !.u.phase = "none", !.u.probe = 0, !.u.pinRes = "none",
                                   !.o.pinReturns = @ \cup
                                       {[met |-> pinMet(st.u.probe, st.u.pinRes),
                                         ret |-> IF status THEN "true" ELSE "false"]},
                                   !.c = IF status \/ phase \in {"failed", "call"} THEN st.c
                                         ELSE recordCategorizedError(st.c, err, s)]
            IN  CASE phase = "failed" -> Run("p_null", back, s)
                  [] phase = "meta" -> Run("p_image", back, s)
                  [] phase = "call" -> [back EXCEPT !.u = Returned(st.u, status)]
                  [] OTHER -> Run("p_done", back, s)
      [] k = "c_ret" ->
            [st EXCEPT !.u = Returned(st.u, st.u.cond)]

(***************************************************************************)
(* fetchIPFSJson from its entry to its first await.                        *)
(***************************************************************************)
fetchIPFSJson(st, s) ==
    LET metadataCID == extractCIDFromUrl(ipfsString(s)) IN
    IF st.u.depth >= maxRetries
    THEN IF metadataCID /= NULL /\ metadataCID /= ""
         THEN checkCIDExists([st EXCEPT !.u.exhausted = TRUE], metadataCID, "f_exhausted", s)
         ELSE Run("p_null", [st EXCEPT !.u.exhausted = TRUE], s)
    ELSE LET v == [st EXCEPT !.u.depth = @ + 1, !.u.known = FALSE] IN
         IF isValidArweaveCID(metadataCID)
         THEN [v EXCEPT !.u.via = "arweave", !.u.pc = "f_attempt"]
         ELSE IF isValidCID(metadataCID)
         THEN checkCIDExists(v, metadataCID, "f_classified", s)
         ELSE [v EXCEPT !.u.via = gatewayTypeOf(ipfsString(s)), !.u.pc = "f_attempt"]

\* the state a step of unit s starts from, and the state it leaves
Step(s) == [u |-> unit[s], c |-> ctx, m |-> cidMap, f |-> confirms, o |-> obs]

Leave(st, s) ==
    /\ unit' = [unit EXCEPT ![s] = st.u]
    /\ ctx' = st.c
    /\ cidMap' = st.m
    /\ confirms' = st.f
    /\ obs' = st.o

Throw(s) == Leave([Step(s) EXCEPT !.u = Rejected(@)], s)

(***************************************************************************)
(* processNFT(nft, ...), started by p-limit in queue order when fewer than *)
(* concurrentRequests units are active.                                    *)
(***************************************************************************)
\* a skip test that looks at the deleted flag only
skipsDeleted(s) == Ledger[s].deleted

\* if (deleted) ... else if (allTokenSerials.includes(serialNum)): the serial
\* is counted as completed and processNFT returns undefined
skips(s) == Ledger[s].deleted \/ s \in allTokenSerials

processNFT(s) ==
    /\ ~SettlePending
    /\ unit[s].pc = "queued"
    /\ \A r \in Serials : unit[r].pc = "queued" => s <= r
    /\ activeCount < concurrentRequests
    /\ IF skips(s)
       THEN Leave([Step(s) EXCEPT !.c = incrementCompleted(@), !.u = Resolved(@, "none")], s)
       ELSE Leave(fetchIPFSJson(Step(s), s), s)
    /\ UNCHANGED <<direct, proc, jobs, scenario, job, cidSet, cidDB, table, faults>>

(***************************************************************************)
(* checkCIDExists after its await: the reply of readItems('cidDB').  A     *)
(* rejected request is caught nowhere up to Promise.all.                   *)
(***************************************************************************)
CheckCIDExistsReply(s) ==
    /\ Alive
    /\ ~MicrotaskPending
    /\ unit[s].pc = "ce_wait"
    /\ \E ok \in Replies :
        /\ Charge(~ok)
        /\ IF ~ok THEN Throw(s)
           ELSE LET found == unit[s].cid \in cidDB IN
                Leave(Run(unit[s].ret,
                          [Step(s) EXCEPT !.u.cond = found,
                                          !.m = memoize(cidMap, unit[s].cid, found)], s), s)
    /\ UNCHANGED <<direct, proc, jobs, scenario, job, cidSet, cidDB, table>>

\* await writeCIDData(metadataCID) of line 417: the argument is a string, so
\* checkCIDsMissing queries the store and the characters it iterates over
\* are no valid identifiers: nothing is created.
FetchWriteCID(s) ==
    /\ Alive
    /\ ~MicrotaskPending
    /\ unit[s].pc = "f_wcd"
    /\ \E ok \in Replies :
        /\ Charge(~ok)
        /\ IF ok THEN Leave([Step(s) EXCEPT !.u.pc = "f_attempt"], s) ELSE Throw(s)
    /\ UNCHANGED <<direct, proc, jobs, scenario, job, cidSet, cidDB, table>>

(***************************************************************************)
(* fetchIPFSJson: what fetchWithTimeout(url) and res.json() deliver.       *)
(*   ok       200 and a JSON body                                          *)
(*   badBody  200 and a body JSON.parse rejects                            *)
(*   non200   any other status                                             *)
(*   error    fetch rejected (network error)                               *)
(*   timeout  controller.abort() fired: fetch rejected with AbortError     *)
(***************************************************************************)
FetchOutcomes == {"ok", "badBody", "non200", "error", "timeout"}

\* 'return res.json()' inside try: the promise is returned, not awaited, so
\* its rejection passes the catch block and rejects fetchIPFSJson.
fetchSettles(outcome) ==
    CASE outcome = "ok" -> "doc"
      [] outcome = "badBody" -> "rejected"
      [] OTHER -> "retry"

\* the url of gatewayType 'direct' is ipfsUrl itself; every other branch
\* prefixes a gateway.  fetch rejects a string that is no absolute URL.
isAbsoluteUrl(via, ipfsUrl) ==
    via /= "direct" \/ (Len(ipfsUrl) > 0 /\ ipfsUrl[1] \in {"https://", "http://"})

FetchAttempt(s) ==
    /\ Alive
    /\ ~MicrotaskPending
    /\ unit[s].pc = "f_attempt"
    /\ \E outcome \in (IF isAbsoluteUrl(unit[s].via, ipfsString(s))
                        THEN Failing(FetchOutcomes, {"badBody"}) ELSE {"error"}) :
        /\ Charge(outcome = "badBody")
        /\ CASE fetchSettles(outcome) = "doc" -> Leave(Run("p_json", Step(s), s), s)
             [] fetchSettles(outcome) = "rejected" ->
                    Leave([Step(s) EXCEPT !.u = Rejected([@ EXCEPT !.fetched = "rejected"])], s)
             [] OTHER -> Leave([Step(s) EXCEPT !.u.pc = "f_sleep"], s)
    /\ UNCHANGED <<direct, proc, jobs, scenario, job, cidSet, cidDB, table>>

\* after 'await sleep(...)': return await fetchIPFSJson(ipfsUrl, depth, seed, ctx)
FetchRetry(s) ==
    /\ Alive
    /\ ~MicrotaskPending
    /\ unit[s].pc = "f_sleep"
    /\ Leave(fetchIPFSJson(Step(s), s), s)
    /\ UNCHANGED <<direct, proc, jobs, scenario, job, cidSet, cidDB, table, faults>>

(***************************************************************************)
(* pinIPFS(_cid, _name, _image, skipDB = false).                           *)
(***************************************************************************)
\* what checkPinHttp can return for an identifier not in cidSet:
\* a 2xx status, or error.status of a rejected GET
ProbeStatuses == {200, 404}

\* axios.post(..., {validateStatus: () => true}): every HTTP status resolves,
\* only a transport failure rejects.
PostOutcomes == {"accepted", "rejected", "transport"}

\* the reply to checkPinHttp's GET
PinProbe(s) ==
    /\ Alive
    /\ ~MicrotaskPending
    /\ unit[s].pc = "pn_probe"
    /\ \E status \in ProbeStatuses :
        /\ cidSet' = IF status >= 200 /\ status < 300 THEN cidSet \cup {unit[s].cid}
                     ELSE cidSet
        /\ Leave(Run("pn_probed", [Step(s) EXCEPT !.u.probe = status], s), s)
    /\ UNCHANGED <<direct, proc, jobs, scenario, job, cidDB, table, faults>>

\* the reply of the pinning service to the POST
PinPost(s) ==
    /\ Alive
    /\ ~MicrotaskPending
    /\ unit[s].pc = "pn_post"
    /\ \E outcome \in Failing(PostOutcomes, {"rejected", "transport"}) :
        /\ Charge(outcome /= "accepted")
        /\ IF outcome = "transport"
           THEN Leave([Step(s) EXCEPT !.u = Rejected(@),
                           !.o.pinReturns = @ \cup {[met |-> outcome, ret |-> "threw"]}], s)
           ELSE Leave([Step(s) EXCEPT !.u.pinRes = outcome, !.u.pc = "wcd_check",
                                      !.u.ret = "pn_ret"], s)
    /\ UNCHANGED <<direct, proc, jobs, scenario, job, cidSet, cidDB, table>>

(***************************************************************************)
(* writeCIDData([_cid]): checkCIDsMissing, then createItems('cidDB').      *)
(***************************************************************************)
\* the reply of checkCIDsMissing's readItems; a rejection is rethrown by the
\* .catch of pinIPFS.  A missing valid identifier: createItems is sent.
WriteCIDCheck(s) ==
    /\ Alive
    /\ ~MicrotaskPending
    /\ unit[s].pc = "wcd_check"
    /\ \E ok \in Replies :
        /\ Charge(~ok)
        /\ IF ~ok THEN Throw(s)
           ELSE IF unit[s].cid \notin cidDB /\ isValidCID(unit[s].cid)
           THEN Leave([Step(s) EXCEPT !.u.pc = "wcd_create",
                                      !.o.cidCreates[unit[s].cid] = Inc(@)], s)
           ELSE Leave(Run(unit[s].ret, Step(s), s), s)
    /\ UNCHANGED <<direct, proc, jobs, scenario, job, cidSet, cidDB, table>>

\* the reply of createItems; an error is caught and logged.  The store
\* refuses a second record with the same key.
WriteCIDCreate(s) ==
    /\ Alive
    /\ ~MicrotaskPending
    /\ unit[s].pc = "wcd_create"
    /\ \E ok \in (IF unit[s].cid \notin cidDB THEN Replies ELSE {FALSE}) :
        /\ Charge(~ok /\ unit[s].cid \notin cidDB)
        /\ cidDB' = IF ok THEN cidDB \cup {unit[s].cid} ELSE cidDB
    /\ Leave(Run(unit[s].ret, Step(s), s), s)
    /\ UNCHANGED <<direct, proc, jobs, scenario, job, cidSet, table>>

(***************************************************************************)
(* confirmPin(_cid) as pinIPFS starts it: forcePin = false, not awaited.   *)
(* checkPinStatus may report the pin pinned; then updateItem('cidDB', _cid, *)
(* {pin_confirmed: true}) is sent.                                         *)
(***************************************************************************)
ConfirmPin(cid) ==
    /\ Alive
    /\ ~MicrotaskPending
    /\ cid \in confirms
    /\ confirms' = confirms \ {cid}
    /\ \E pinned \in BOOLEAN :
        obs' = [obs EXCEPT !.cidUpdated = @ \/ (pinned /\ isValidCID(cid))]
    /\ UNCHANGED <<direct, proc, jobs, scenario, job, ctx, unit, cidMap, cidSet, cidDB, table, faults>>

(***************************************************************************)
(* getStaticDataViaMirrors.                                                *)
(***************************************************************************)
\* tokenData.total_supply of getTokenDetails: the serials minted and not burned
totalSupply == Cardinality({s \in Serials : ~Ledger[s].deleted})

Max(a, b) == IF a > b THEN a ELSE b

RECURSIVE SortedSeq(_)
SortedSeq(S) ==
    IF S = {} THEN <<>>
    ELSE LET m == CHOOSE x \in S : \A y \in S : x <= y
         IN  <<m>> \o SortedSeq(S \ {m})

SeqSet(q) == {q[i] : i \in 1..Len(q)}

\* first call: new ProcessingContext(...); ctx.start()
JobStart ==
    /\ job.pc = "init"
    /\ ctx' = [ctx EXCEPT !.started = TRUE]
    /\ job' = [job EXCEPT !.pc = "fetchPage"]
    /\ UNCHANGED <<direct, proc, jobs, scenario, unit, cidMap, cidSet, cidDB, table, confirms, obs, faults>>

\* fetchJson: 'return res.json()' is not awaited inside the try either
fetchJsonSettles(outcome) ==
    CASE outcome = "ok" -> "doc"
      [] outcome = "badBody" -> "rejected"
      [] OTHER -> "retry"

\* ctx.addToProcess(count)
addToProcess(c, count) == [c EXCEPT !.totalToProcess = @ + count]

\* ctx.setActualTotal(total)
setActualTotal(c, total) == [c EXCEPT !.actualTotal = Max(total, c.totalToProcess)]

\* ctx.addToProcess(n); if actualTotal is 0, ctx.setActualTotal(supply - known)
pageCounted(c, n) ==
    LET d == addToProcess(c, n) IN
    IF d.actualTotal = 0
    THEN setActualTotal(d, totalSupply - Cardinality(allTokenSerials))
    ELSE d

\* one attempt of fetchJson(baseUrl + routeUrl, depth, ctx) and, when it
\* delivers the page, the code up to 'await Promise.all(promises)'
FetchPage ==
    /\ ~StartPending
    /\ job.pc = "fetchPage"
    /\ IF job.depth >= maxRetries
       THEN \* json == null: 'FATAL ERROR: no NFTs found'; return ctx.  The
            \* first call returns at once, a nested call returns to the
            \* first one, which runs ctx.complete().
            /\ job' = [job EXCEPT !.pc = "done"]
            /\ ctx' = [ctx EXCEPT !.ended = (job.page > 1)]
            /\ UNCHANGED <<unit, faults>>
       ELSE \E outcome \in Failing(FetchOutcomes, {"badBody"}) :
            /\ Charge(outcome = "badBody")
            /\ CASE fetchJsonSettles(outcome) = "doc" ->
                   /\ job' = [job EXCEPT !.pc = "awaiting", !.depth = 0]
                   /\ ctx' = pageCounted(ctx, Cardinality(nftsToProcess(job.page)))
                   /\ unit' = [s \in Serials |->
                                 IF s \in PageUnits(job.page)
                                 THEN [unit[s] EXCEPT !.pc = "queued"] ELSE unit[s]]
              [] fetchJsonSettles(outcome) = "rejected" ->
                   /\ job' = [job EXCEPT !.pc = "rejected"]
                   /\ UNCHANGED <<ctx, unit>>
              [] OTHER ->
                   /\ job' = [job EXCEPT !.depth = @ + 1]
                   /\ UNCHANGED <<ctx, unit>>
    /\ UNCHANGED <<direct, proc, jobs, scenario, cidMap, cidSet, cidDB, table, confirms, obs>>

\* Promise.all(promises) settled: .then(push) .then(write) or .catch(log)
PageSettle ==
    /\ SettlePending
    /\ IF \E s \in PageUnits(job.page) : unit[s].pc = "rejected"
       THEN /\ job' = [job EXCEPT !.pc = "next", !.toWrite = <<>>]
            /\ UNCHANGED obs
       ELSE LET flatList == {s \in PageUnits(job.page) :
                                unit[s].out /= "none" /\ s \notin allTokenSerials}
            IN  /\ job' = [job EXCEPT !.pc = "writing", !.toWrite = SortedSeq(flatList)]
                /\ obs' = [obs EXCEPT !.handed = @ \cup flatList]
    /\ UNCHANGED <<direct, proc, jobs, scenario, ctx, unit, cidMap, cidSet, cidDB, table, confirms, faults>>

\* batches.push(list.slice(i, i + batchSize)): the next batch of the list
batchOf(list) == SubSeq(list, 1, Min(writeBatchSize, Len(list)))

\* a retry loop that gives up after the first item of the batch
retryFirst(batch) == <<Head(batch)>>

\* for (const item of batch): the items sent one by one after the batch failed
retryItems(batch) == batch

\* a createItems request carrying the items of q was sent as kind
sent(o, q, kind) ==
    [o EXCEPT !.tableCreates = Inc(@),
              !.sends = [s \in Serials |->
                           IF s \notin SeqSet(q) THEN @[s]
                           ELSE IF kind = "batch" THEN [@[s] EXCEPT !.batch = Inc(@)]
                           ELSE [@[s] EXCEPT !.single = Inc(@)]]]

\* writeStaticData / SchemaWriter.writeMetadata: the early returns, then the
\* reply to createItems(batch) for the next batch; on its failure the items
\* of the batch are sent one by one
WriteBatch ==
    /\ ~StartPending
    /\ job.pc = "writing"
    /\ LET list == SelectSeq(job.toWrite, LAMBDA s : s \notin allTokenSerials) IN
       IF Len(list) = 0 \/ scenario.dryRun
       THEN /\ job' = [job EXCEPT !.pc = "next", !.toWrite = <<>>]
            /\ UNCHANGED <<table, obs, faults>>
       ELSE LET batch == batchOf(list)
                rest == SubSeq(list, Len(batch) + 1, Len(list))
            IN  \E ok \in Replies :
                /\ Charge(~ok)
                /\ IF ok
                   THEN /\ table' = table \cup SeqSet(batch)
                        /\ obs' = sent(obs, batch, "batch")
                        /\ job' = [job EXCEPT !.toWrite = rest,
                                              !.pc = IF Len(rest) = 0 THEN "next" ELSE "writing"]
                   ELSE /\ UNCHANGED table
                        /\ obs' = [sent(obs, batch, "batch") EXCEPT
                                     !.sends = [s \in Serials |->
                                                  IF s \in SeqSet(batch)
                                                  THEN [@[s] EXCEPT !.failed = TRUE] ELSE @[s]]]
                        /\ job' = [job EXCEPT !.toWrite = rest, !.pc = "retrying",
                                              !.retry = retryItems(batch)]
    /\ UNCHANGED <<direct, proc, jobs, scenario, ctx, unit, cidMap, cidSet, cidDB, confirms>>

\* the reply to createItems([item]) for the next item of the failed batch;
\* an item that fails again is logged
WriteItem ==
    /\ ~StartPending
    /\ job.pc = "retrying"
    /\ LET item == Head(job.retry)
           left == Tail(job.retry)
       IN  /\ \E ok \in BOOLEAN :
                table' = IF ok THEN table \cup {item} ELSE table
           /\ obs' = sent(obs, <<item>>, "single")
           /\ job' = [job EXCEPT !.retry = left,
                                 !.pc = IF Len(left) > 0 THEN "retrying"
                                        ELSE IF Len(job.toWrite) = 0 THEN "next"
                                        ELSE "writing"]
    /\ UNCHANGED <<direct, proc, jobs, scenario, ctx, unit, cidMap, cidSet, cidDB, confirms, faults>>

\* routeUrl = json.links.next: the nested call for the next page, or, back
\* in the first call, ctx.complete()
NextPage ==
    /\ ~StartPending
    /\ job.pc = "next"
    /\ IF job.page < LastPage
       THEN /\ job' = [job EXCEPT !.pc = "fetchPage", !.page = @ + 1, !.depth = 0]
            /\ UNCHANGED ctx
       ELSE /\ job' = [job EXCEPT !.pc = "done"]
            /\ ctx' = [ctx EXCEPT !.ended = TRUE]
    /\ UNCHANGED <<direct, proc, jobs, scenario, unit, cidMap, cidSet, cidDB, table, confirms, obs, faults>>

Next ==
    \/ JobStart
    \/ FetchPage
    \/ PageSettle
    \/ WriteBatch
    \/ WriteItem
    \/ NextPage
    \/ \E s \in Serials :
        \/ processNFT(s)
        \/ CheckCIDExistsReply(s)
        \/ FetchWriteCID(s)
        \/ FetchAttempt(s)
        \/ FetchRetry(s)
        \/ PinProbe(s)
        \/ PinPost(s)
        \/ WriteCIDCheck(s)
        \/ WriteCIDCreate(s)
    \/ \E cid \in CIDs : ConfirmPin(cid)

Spec == Init /\ [][Next]_vars

(***************************************************************************)
(* The exported functions called outside a job, and the life of the        *)
(* process with its cache file (tokenStaticDataHelper 20-133, 561-567).    *)
(***************************************************************************)
CallOps == {"checkCIDExists", "pinIPFS", "confirmPin"}

CallIds == {"QmA", "QmB", NotACid}

\* calls a caller makes in one process run
MaxCalls == 1

\* runs of preloadCIDCacheFromDB in one process run
MaxPreloads == 2

\* the batchSize preloadCIDCacheFromDB is called with
preloadBatchSize == 1

\* a caller calls op(id) and runs it up to its first await
Call(s, op, id) ==
    /\ Alive
    /\ unit[s].pc \in {"idle", "returned", "rejected"}
    /\ proc.calls[s].n < MaxCalls
    /\ proc' = [proc EXCEPT !.calls[s] = [op |-> op, id |-> id, n |-> @.n + 1]]
    /\ LET st == [Step(s) EXCEPT !.u = [Unit0 EXCEPT !.phase = "call", !.cid = id]] IN
       CASE op = "checkCIDExists" -> Leave(checkCIDExists(st, id, "c_ret", s), s)
         [] op = "pinIPFS" -> Leave(Run("pn_start", st, s), s)
         [] OTHER -> Leave(IF confirmPinStarts(id)
                           THEN [st EXCEPT !.u.pc = "cp_wait"]
                           ELSE [st EXCEPT !.u = Returned(st.u, FALSE)], s)
    /\ UNCHANGED <<direct, jobs, scenario, job, cidSet, cidDB, table, faults>>

\* confirmPin(_cid) called directly, forcePin = false: the reply of
\* checkPinStatus and, for a pinned one, the updateItem request
ConfirmPinReply(s) ==
    /\ Alive
    /\ unit[s].pc = "cp_wait"
    /\ \E pinned \in BOOLEAN :
        Leave([Step(s) EXCEPT !.u = Returned(@, pinned),
                              !.o.cidUpdated = @ \/ pinned], s)
    /\ UNCHANGED <<direct, proc, jobs, scenario, job, cidSet, cidDB, table, faults>>

\* the order readItems('cidDB') delivers the records in
DbOrder == <<"QmA", "QmB", "QmI", "bafyC">>

DbRows == SelectSeq(DbOrder, LAMBDA c : c \in cidDB)

\* readItems('cidDB', {limit: batchSize, page: p})
DbPage(p) ==
    {DbRows[i] : i \in {k \in 1..Len(DbRows) :
                          k > (p - 1) * preloadBatchSize /\ k <= p * preloadBatchSize}}

\* for each key: cidMap.set(key, true)
setAll(m, keys) == [c \in DOMAIN m \cup keys |-> TRUE]

\* loadCIDCache, started at module load: the entries of the file are put
\* into cidMap; a missing or unparsable file leaves it as it is
LoadCIDCache ==
    /\ Alive
    /\ proc.load = "pending"
    /\ proc' = [proc EXCEPT !.load = "done"]
    /\ cidMap' = setAll(cidMap, proc.file)
    /\ UNCHANGED <<direct, jobs, scenario, job, ctx, unit, cidSet, cidDB, table, confirms, obs, faults>>

\* preloadCIDCacheFromDB is called: the request for page 1 is sent
PreloadStart ==
    /\ Alive
    /\ proc.pre.pc \in {"idle", "done"}
    /\ proc.pre.runs < MaxPreloads
    /\ proc' = [proc EXCEPT !.pre = [Preload0 EXCEPT !.pc = "page", !.runs = proc.pre.runs + 1]]
    /\ UNCHANGED <<direct, jobs, scenario, job, ctx, unit, cidMap, cidSet, cidDB, table, confirms, obs,
                   faults>>

\* the reply for a page: a failure is caught (return 0); an empty page ends
\* the loop and saveCIDCache starts; otherwise every identifier not yet in
\* cidMap is set and counted, and the next page is requested
PreloadPage ==
    /\ Alive
    /\ proc.pre.pc = "page"
    /\ \E ok \in Replies :
        /\ Charge(~ok)
        /\ IF ~ok
           THEN /\ proc' = [proc EXCEPT !.pre.pc = "done", !.pre.ret = 0]
                /\ UNCHANGED cidMap
           ELSE LET data == DbPage(proc.pre.page + 1)
                    new == data \ DOMAIN cidMap
                IN  IF data = {}
                    THEN /\ proc' = [proc EXCEPT !.pre.pc = "save_mkdir"]
                         /\ UNCHANGED cidMap
                    ELSE /\ cidMap' = setAll(cidMap, new)
                         /\ proc' = [proc EXCEPT !.pre.page = @ + 1,
                                                 !.pre.totalLoaded = @ + Cardinality(new),
                                                 !.pre.added = @ \cup new]
    /\ UNCHANGED <<direct, jobs, scenario, job, ctx, unit, cidSet, cidDB, table, confirms, obs>>

\* saveCIDCache after its mkdir: Array.from(cidMap.entries())
cacheEntries == DOMAIN cidMap

\* saveCIDCache of the preload, mkdir done: the entries are taken and
\* writeFile is sent
PreloadSave ==
    /\ Alive
    /\ proc.pre.pc = "save_mkdir"
    /\ proc' = [proc EXCEPT !.pre.pc = "save_write", !.snap = cacheEntries]
    /\ UNCHANGED <<direct, jobs, scenario, job, ctx, unit, cidMap, cidSet, cidDB, table, confirms, obs,
                   faults>>

\* writeFile settled (an error is caught and logged); return totalLoaded
PreloadSaved ==
    /\ Alive
    /\ proc.pre.pc = "save_write"
    /\ \E ok \in Replies :
        /\ Charge(~ok)
        /\ proc' = [proc EXCEPT !.pre.pc = "done", !.pre.ret = proc.pre.totalLoaded,
                                !.file = IF ok THEN proc.snap ELSE @]
    /\ UNCHANGED <<direct, jobs, scenario, job, ctx, unit, cidMap, cidSet, cidDB, table, confirms, obs>>

\* process.on('exit'): the listener calls saveCIDCache(), which suspends at
\* its first await; the process ends when the listener returns, so the
\* write is never sent.  A writeFile of the preload that is under way is
\* cut off: the file is the old one, the new one, or unparsable.
Exit ==
    /\ proc.phase = "running"
    /\ \E f \in {proc.file} \cup (IF proc.pre.pc = "save_write" THEN {proc.snap, {}} ELSE {}) :
        proc' = [proc EXCEPT !.phase = "ended", !.file = f]
    /\ UNCHANGED <<direct, jobs, scenario, job, ctx, unit, cidMap, cidSet, cidDB, table, confirms, obs,
                   faults>>

\* process.on('SIGINT'): saveCIDCache() is started, the process goes on
Sigint ==
    /\ proc.phase = "running"
    /\ proc.pre.pc \notin {"save_mkdir", "save_write"}
    /\ proc' = [proc EXCEPT !.phase = "int_mkdir"]
    /\ UNCHANGED <<direct, jobs, scenario, job, ctx, unit, cidMap, cidSet, cidDB, table, confirms, obs,
                   faults>>

\* saveCIDCache of the SIGINT listener, mkdir done: entries taken, writeFile sent
SigintSave ==
    /\ proc.phase = "int_mkdir"
    /\ proc' = [proc EXCEPT !.phase = "int_write", !.snap = cacheEntries]
    /\ UNCHANGED <<direct, jobs, scenario, job, ctx, unit, cidMap, cidSet, cidDB, table, confirms, obs,
                   faults>>

\* writeFile settled, .then(() => process.exit(0)): the process ends
SigintSaved ==
    /\ proc.phase = "int_write"
    /\ \E ok \in Replies :
        /\ Charge(~ok)
        /\ proc' = [proc EXCEPT !.phase = "ended", !.file = IF ok THEN proc.snap ELSE @]
    /\ UNCHANGED <<direct, jobs, scenario, job, ctx, unit, cidMap, cidSet, cidDB, table, confirms, obs>>

\* The external systems fail at most once more.  The cache file is what an
\* earlier run of the program left: entries that run had in cidMap, all of
\* them records of the store, which no code of the program deletes.
CacheInit ==
    /\ Idle
    /\ Fresh
    /\ job = Job0
    /\ faults = MaxFaults - 1
    /\ scenario = [ledger |-> "A", dryRun |-> FALSE]
    /\ cidDB = {"QmB"}
    /\ \E f \in SUBSET cidDB : proc = [Proc0 EXCEPT !.file = f]
    /\ jobs = Jobs0

CacheNext ==
    \/ \E s \in Callers :
        \/ \E op \in CallOps, id \in CallIds : Call(s, op, id)
        \/ ConfirmPinReply(s)
        \/ CheckCIDExistsReply(s)
        \/ PinProbe(s)
        \/ PinPost(s)
        \/ WriteCIDCheck(s)
        \/ WriteCIDCreate(s)
    \/ \E cid \in CIDs : ConfirmPin(cid)
    \/ LoadCIDCache
    \/ PreloadStart
    \/ PreloadPage
    \/ PreloadSave
    \/ PreloadSaved
    \/ Exit
    \/ Sigint
    \/ SigintSave
    \/ SigintSaved

\* the cache functions and the pin functions under direct calls
CacheSpec == CacheInit /\ [][CacheNext]_vars

(***************************************************************************)
(* Properties.                                                             *)
(***************************************************************************)
\* processNFT of serial s has settled
Settled(s) == unit[s].pc \in {"resolved", "rejected"}

\* serial s has an entry in some category of ctx.errors
HasError(s) == \E c \in Categories : ctx.errors[c][s] > 0

\* the job is past the Promise.all of page p
PageSettled(p) ==
    \/ job.page > p
    \/ job.page = p /\ job.pc \in {"writing", "retrying", "next", "done"}

\* the serials a page delivered that are neither deleted nor in the skip list
NewSerials == {s \in Serials : unit[s].pc /= "idle" /\ s \in nftsToProcess(Ledger[s].page)}

(***************************************************************************)
(* C1: a failure of one serial's processNFT never aborts the page: once    *)
(* the page has settled, every serial of it that was processed to a record *)
(* has been handed to the batch write, and every serial whose unit failed  *)
(* (rejected, or fetch exhausted) has an entry in the categorized errors.  *)
(***************************************************************************)
C1_UnitFailureNeverAbortsPage ==
    \A s \in Serials :
        PageSettled(Ledger[s].page) =>
            /\ unit[s].out = "record" => s \in obs.handed
            /\ unit[s].pc = "rejected" => HasError(s)
            /\ (Settled(s) /\ unit[s].exhausted) => HasError(s)

(***************************************************************************)
(* C2: the gateway type of every attempt agrees with what the reference    *)
(* resolves to: an Arweave identifier goes to an Arweave gateway, a valid  *)
(* CID to the project gateway when known-present and to an IPFS gateway    *)
(* otherwise, an hcs:// reference to the CDN, and only a reference that    *)
(* resolves to nothing is fetched as-is.                                   *)
(***************************************************************************)
C2_RoutingAgreesWithResolver ==
    \A s \in Serials :
        unit[s].pc = "f_attempt" =>
            LET ref == Ledger[s].metadata
                id == extractCIDFromUrl(ref)
            IN  unit[s].via =
                    IF isValidArweaveCID(id) THEN "arweave"
                    ELSE IF isValidCID(id)
                         THEN (IF unit[s].known THEN "filebase" ELSE "ipfs")
                    ELSE IF Contains(ref, "hcs://") THEN "hcs"
                    ELSE "direct"

(***************************************************************************)
(* C3: a settled serial whose fetch exhausted the budget has exactly one   *)
(* fetchMetadata entry, no record and no completed increment; one whose    *)
(* fetch delivered a document has one record and no fetchMetadata entry;   *)
(* the failed-load pin is requested at most once, after exhaustion, for a  *)
(* valid CID.                                                              *)
(***************************************************************************)
C3_FetchOutcomeAccounting ==
    /\ \A s \in Serials :
          (Settled(s) /\ unit[s].exhausted) =>
              /\ ctx.errors["fetchMetadata"][s] = 1
              /\ unit[s].out /= "record"
              /\ s \notin obs.handed
              /\ obs.pinPosts[extractCIDFromUrl(Ledger[s].metadata)] <= 1
    /\ \A s \in Serials :
          (Settled(s) /\ unit[s].fetched = "doc") =>
              /\ unit[s].out = "record"
              /\ ctx.errors["fetchMetadata"][s] = 0
    /\ \A s \in Serials :
          unit[s].phase = "failed" => unit[s].exhausted /\ isValidCID(unit[s].cid)
    /\ ctx.totalCompleted =
          Cardinality({s \in Serials : /\ unit[s].pc = "resolved"
                                       /\ \/ unit[s].out = "record"
                                          \/ s \notin nftsToProcess(Ledger[s].page)})

(***************************************************************************)
(* C4: fetchJson and fetchIPFSJson make at most maxRetries attempts, and a *)
(* call whose attempts are used up returns null.                           *)
(***************************************************************************)
C4_BoundedAttemptsThenNull ==
    /\ job.depth <= maxRetries
    /\ \A s \in Serials :
          /\ unit[s].depth <= maxRetries
          /\ (unit[s].exhausted /\ unit[s].fetched /= "none") => unit[s].fetched = "null"

(***************************************************************************)
(* C5: whatever the endpoint delivers (non-200, network error, timeout, a  *)
(* 200 whose body is no JSON), fetchJson and fetchIPFSJson do not reject.  *)
(***************************************************************************)
C5_FetchNeverRejects ==
    /\ job.pc /= "rejected"
    /\ \A s \in Serials : unit[s].fetched /= "rejected"

(***************************************************************************)
(* C6: pinIPFS returns true only when the content was live or the pinning  *)
(* service accepted the request, and returns false (it does not throw)     *)
(* when the request met a transport failure or a non-2xx response.         *)
(***************************************************************************)
C6_PinResultTruthful ==
    \A r \in obs.pinReturns :
        /\ r.ret = "true" => r.met \in {"live", "accepted"}
        /\ r.met \in {"rejected", "transport"} => r.ret = "false"

(***************************************************************************)
(* C7: when a run that writes returns, every new serial its pages          *)
(* delivered is in the metadata table or has an entry in the categorized   *)
(* errors.                                                                 *)
(***************************************************************************)
C7_NoSerialLostSilently ==
    (job.pc = "done" /\ ~scenario.dryRun) =>
        \A s \in NewSerials : s \in table \/ HasError(s)

(***************************************************************************)
(* C8: with dryRun no create or update request reaches the metadata table  *)
(* or the CID record store and no pin request reaches the pinning service. *)
(***************************************************************************)
C8_DryRunChangesNothing ==
    scenario.dryRun =>
        /\ table = {}
        /\ obs.tableCreates = 0
        /\ ~obs.cidUpdated
        /\ \A cid \in CIDs : obs.pinPosts[cid] = 0 /\ obs.cidCreates[cid] = 0

(***************************************************************************)
(* C9: a call of pinIPFS whose probe reported a 2xx status sends no POST   *)
(* to the pinning service: it is only ever checking or writing the         *)
(* identifier's record in the CID store.                                   *)
(***************************************************************************)
C9_LiveProbeSendsNoPinRequest ==
    \A s \in Serials :
        (unit[s].probe >= 200 /\ unit[s].probe < 300) =>
            unit[s].pc \in {"ce_wait", "wcd_check", "wcd_create"}

\* a second pinIPFS for an identifier already requested once finds it live
\* and goes on to the record check, the request count still one
C9_SecondCallFoundLive ==
    \E s \in Serials :
        /\ unit[s].phase = "img"
        /\ unit[s].probe = 200
        /\ unit[s].pc = "wcd_check"
        /\ obs.pinPosts[unit[s].cid] = 1

(***************************************************************************)
(* C10: at most one create request per identifier is sent to the CID       *)
(* record store.                                                           *)
(***************************************************************************)
C10_OneCreatePerIdentifier ==
    \A cid \in CIDs : obs.cidCreates[cid] <= 1


(***************************************************************************)
(* C12: for any identifier, checkCIDExists sends at most one readItems     *)
(* query per process run, under any interleaving of the units: an absent   *)
(* answer is remembered like a present one, and an identifier found absent *)
(* and then persisted is answered from the cache.                          *)
(***************************************************************************)
C12_OneQueryPerIdentifier ==
    \A cid \in CIDs : obs.cidQueries[cid] <= 1

(***************************************************************************)
(* C17: pages are processed strictly in sequence: once the job has moved   *)
(* to page N+1 (its fetch is sent), every processNFT unit of page N has    *)
(* settled, resolved or rejected.                                          *)
(***************************************************************************)
C17_PagesStrictlySequential ==
    \A s \in Serials : job.page > Ledger[s].page => Settled(s)

\* the requests a unit waits for: metadata fetch, existence query, gateway
\* probe, pin POST
NetworkWaits == {"f_attempt", "ce_wait", "pn_probe", "pn_post"}

\* network operations in flight: one per waiting unit, and one per
\* confirmPin that pinIPFS started without awaiting it
inFlight == Cardinality({s \in Serials : unit[s].pc \in NetworkWaits})
                + Cardinality(confirms)

(***************************************************************************)
(* C18: at every instant the number of network operations in flight that   *)
(* serial processing issued (metadata fetches, existence queries, gateway  *)
(* probes, pin requests, pin-status confirmations) is at most              *)
(* config.processing.concurrentRequests.                                   *)
(***************************************************************************)
C18_InFlightWithinLimit == inFlight <= concurrentRequests

(***************************************************************************)
(* C20: the progress total, once derived from the total supply minus the   *)
(* known serials, is raised whenever paging reveals more items than        *)
(* predicted: after every page actualTotal >= totalToProcess.              *)
(***************************************************************************)
C20_ActualTotalCoversToProcess ==
    job.pc /= "init" => ctx.actualTotal >= ctx.totalToProcess


(***************************************************************************)
(* The ProcessingContext objects of two invocations in one process         *)
(* (ProcessingContext.js 17-132, GatewayManager).  jobs.heap holds the     *)
(* GatewayManager objects; a context refers to its managers by address.    *)
(***************************************************************************)
\* operations on one context
MaxOps == 2

\* a constructor that hands out one manager object for all contexts
sharedGatewayManager(heap) ==
    IF Len(heap) > 0 THEN [heap |-> heap, ref |-> 1]
    ELSE [heap |-> <<GatewayStats0>>, ref |-> 1]

\* new GatewayManager(config.*.gateways, type): a new object whose
\* statistics are new objects, one per configured url
newGatewayManager(heap) == [heap |-> Append(heap, GatewayStats0), ref |-> Len(heap) + 1]

\* new ProcessingContext({tokenId, ...}) without manager options, ctx.start()
newProcessingContext(heap) ==
    LET i == newGatewayManager(heap)
        a == newGatewayManager(i.heap)
    IN  [heap |-> a.heap,
         ctx |-> [c |-> [Context0.c EXCEPT !.started = TRUE],
                  ipfsGatewayManager |-> i.ref, arweaveGatewayManager |-> a.ref]]

\* gateway.successCount++ / gateway.failCount++ of the manager at ref
recordSuccess(heap, ref, url) == [heap EXCEPT ![ref][url].successCount = @ + 1]

recordFailure(heap, ref, url) == [heap EXCEPT ![ref][url].failCount = @ + 1]

\* job j may operate on its context
CanOperate(j) == j \in jobs.made /\ jobs.ops[j] < MaxOps

Operated(j, ctxs, heap) ==
    jobs' = [jobs EXCEPT !.ops[j] = @ + 1, !.ctxs = ctxs, !.heap = heap]

\* everything but jobs
pipelineVars == <<direct, scenario, job, ctx, unit, cidMap, cidSet, cidDB, table, confirms, obs,
                  faults, proc>>

\* the first call of getStaticDataViaMirrors for job j
CreateContext(j) ==
    /\ j \notin jobs.made
    /\ LET n == newProcessingContext(jobs.heap) IN
       jobs' = [jobs EXCEPT !.made = @ \cup {j}, !.ctxs[j] = n.ctx, !.heap = n.heap]
    /\ UNCHANGED pipelineVars

CtxIncrementCompleted(j) ==
    /\ CanOperate(j)
    /\ Operated(j, [jobs.ctxs EXCEPT ![j].c = incrementCompleted(@)], jobs.heap)
    /\ UNCHANGED pipelineVars

CtxAddToProcess(j) ==
    /\ CanOperate(j)
    /\ \E count \in 1..2 :
        Operated(j, [jobs.ctxs EXCEPT ![j].c = addToProcess(@, count)], jobs.heap)
    /\ UNCHANGED pipelineVars

CtxSetActualTotal(j) ==
    /\ CanOperate(j)
    /\ \E total \in 1..2 :
        Operated(j, [jobs.ctxs EXCEPT ![j].c = setActualTotal(@, total)], jobs.heap)
    /\ UNCHANGED pipelineVars

CtxRecordError(j) ==
    /\ CanOperate(j)
    /\ \E category \in {"fetchMetadata", "pinImage"} :
        Operated(j, [jobs.ctxs EXCEPT ![j].c = recordCategorizedError(@, category, 1)],
                 jobs.heap)
    /\ UNCHANGED pipelineVars

\* ctx.ipfsGatewayManager.recordSuccess(url, ...) and the like
CtxRecordSuccess(j) ==
    /\ CanOperate(j)
    /\ \E ref \in {jobs.ctxs[j].ipfsGatewayManager, jobs.ctxs[j].arweaveGatewayManager},
          url \in Gateways :
        Operated(j, jobs.ctxs, recordSuccess(jobs.heap, ref, url))
    /\ UNCHANGED pipelineVars

CtxRecordFailure(j) ==
    /\ CanOperate(j)
    /\ \E ref \in {jobs.ctxs[j].ipfsGatewayManager, jobs.ctxs[j].arweaveGatewayManager},
          url \in Gateways :
        Operated(j, jobs.ctxs, recordFailure(jobs.heap, ref, url))
    /\ UNCHANGED pipelineVars

ContextInit ==
    /\ Idle
    /\ Fresh
    /\ job = Job0
    /\ faults = 0
    /\ scenario = [ledger |-> "A", dryRun |-> FALSE]
    /\ cidDB = {"QmB"}
    /\ proc = Proc0
    /\ jobs = Jobs0

ContextNext ==
    \E j \in JobIds :
        \/ CreateContext(j)
        \/ CtxIncrementCompleted(j)
        \/ CtxAddToProcess(j)
        \/ CtxSetActualTotal(j)
        \/ CtxRecordError(j)
        \/ CtxRecordSuccess(j)
        \/ CtxRecordFailure(j)

\* two invocations and their contexts
ContextSpec == ContextInit /\ [][ContextNext]_vars

\* what job j can read through its context: counts, error collections and
\* the statistics of its two gateway managers
View(j) ==
    IF j \in jobs.made
    THEN <<jobs.ctxs[j].c, jobs.heap[jobs.ctxs[j].ipfsGatewayManager],
           jobs.heap[jobs.ctxs[j].arweaveGatewayManager]>>
    ELSE <<Context0.c, GatewayStats0, GatewayStats0>>

(***************************************************************************)
(* C19: two ProcessingContext instances created for different invocations *)
(* are isolated: a step that changes what one context shows (counts, error *)
(* collections, gateway statistics) leaves what the other shows unchanged, *)
(* under any interleaving of the two jobs.                                 *)
(***************************************************************************)
C19_ContextsIsolated ==
    [][\A j \in JobIds :
          View(j)' /= View(j) => \A k \in JobIds \ {j} : View(k)' = View(k)]_vars

\* both contexts exist; job 1 has recorded an error and a gateway success,
\* job 2 still shows a fresh context
C19_OneBusyOneFresh ==
    /\ jobs.made = JobIds
    /\ jobs.ops[1] = MaxOps
    /\ jobs.ctxs[1].c.errors["fetchMetadata"][1] = 1
    /\ jobs.heap[jobs.ctxs[1].ipfsGatewayManager]["gwA"].successCount = 1
    /\ View(2) = <<[Context0.c EXCEPT !.started = TRUE], GatewayStats0, GatewayStats0>>

\* the caller's running or last call
CalledWith(s, ops, ids) == proc.calls[s].op \in ops /\ proc.calls[s].id \in ids

\* what a unit waits for when a request of its call is outstanding
RequestWaits == {"pn_probe", "pn_post", "ce_wait", "wcd_check", "wcd_create", "cp_wait"}

(***************************************************************************)
(* C11: pinIPFS and confirmPin validate the identifier before any network  *)
(* activity: called with a string that matches neither the CID patterns    *)
(* nor the Arweave pattern, the call sends no gateway probe, no pinning    *)
(* request and no database request, and it reports failure.                *)
(***************************************************************************)
C11_InvalidIdentifierRejectedLocally ==
    \A s \in Callers :
        CalledWith(s, {"pinIPFS", "confirmPin"}, {NotACid}) =>
            /\ unit[s].pc \notin RequestWaits
            /\ obs.pinPosts[NotACid] = 0
            /\ unit[s].pc = "returned" => unit[s].out = "false"

(***************************************************************************)
(* C13: every identifier cidMap reports present is a record of the         *)
(* external store: no sequence of cache load, preload, existence check,    *)
(* pin and write operations produces a false positive.                     *)
(***************************************************************************)
C13_NoFalsePositive ==
    \A c \in DOMAIN cidMap : cidMap[c] => c \in cidDB

\* the cache holds an entry the file or the preload delivered, and one a
\* pin created in the store and the cache then learned from it
C13_LoadedAndQueriedPresent ==
    /\ proc.load = "done"
    /\ proc.file /= {}
    /\ {"QmA", "QmB"} \subseteq DOMAIN cidMap
    /\ obs.cidCreates["QmA"] > 0

(***************************************************************************)
(* C14: the count a run of preloadCIDCacheFromDB returns is always the     *)
(* number of identifiers that run newly added to the cache (so a second    *)
(* run against an unchanged store adds nothing and returns 0).             *)
(***************************************************************************)
C14_PreloadReturnsAddedCount ==
    proc.pre.pc = "done" => proc.pre.ret = Cardinality(proc.pre.added)

(***************************************************************************)
(* C15: when the remote existence query fails, checkCIDExists returns      *)
(* false without raising: the call never ends in an exception.             *)
(***************************************************************************)
C15_FailedQueryDegradesToAbsent ==
    \A s \in Callers :
        CalledWith(s, {"checkCIDExists"}, CallIds) => unit[s].pc /= "rejected"

(***************************************************************************)
(* C16: on process termination, by the exit event or by SIGINT, the cache  *)
(* snapshot is written before the process ends: the file then holds every  *)
(* entry of the in-memory map.                                             *)
(***************************************************************************)
C16_CacheSavedBeforeProcessEnds ==
    proc.phase = "ended" => DOMAIN cidMap \subseteq proc.file

(***************************************************************************)
(* C21: the job is finalized only after the pagination is exhausted and    *)
(* all units have settled: every context getStaticDataViaMirrors returns   *)
(* has its end time set, and no unit is running or queued when it is set.  *)
(***************************************************************************)
C21_FinalizedAfterDrain ==
    /\ job.pc = "done" => ctx.ended
    /\ ctx.ended => \A s \in Serials : ~Running(s) /\ unit[s].pc /= "queued"

(***************************************************************************)
(* writeStaticData / writeMetadata called with a list of items             *)
(* (tokenStaticDataHelper 233-291, schemaWriter 87-170).                   *)
(***************************************************************************)
\* the lists of items a caller hands over, in serial order
WriteLists == {SortedSeq(S) : S \in SUBSET Serials}

WriteInit ==
    /\ Idle
    /\ ctx = Context0.c
    /\ unit = [s \in Serials |-> Unit0]
    /\ cidMap = [c \in {} |-> TRUE]
    /\ cidSet = {}
    /\ table = {}
    /\ confirms = {}
    /\ faults = 0
    /\ cidDB = {"QmB"}
    /\ proc = Proc0
    /\ jobs = Jobs0
    /\ scenario \in {[ledger |-> "A", dryRun |-> FALSE], [ledger |-> "B", dryRun |-> TRUE]}
    /\ \E list \in WriteLists :
        /\ job = [Job0 EXCEPT !.pc = "writing", !.toWrite = list]
        /\ obs = [Obs0 EXCEPT !.handed = SeqSet(list)]

WriteNext == WriteBatch \/ WriteItem

\* one call of writeStaticData
WriteSpec == WriteInit /\ [][WriteNext]_vars

\* the items handed to the write that are not among the existing serials
ToWrite == obs.handed \ allTokenSerials

(***************************************************************************)
(* C22: the items are sent in batches of at most writeBatchSize; when a    *)
(* batch create fails exactly the items of that batch are retried one by   *)
(* one, each once; items of successful batches are never sent again, and   *)
(* the batches after a failed one are still sent as batches.               *)
(***************************************************************************)
C22_FallbackForFailedBatchOnly ==
    /\ \A s \in Serials :
          /\ obs.sends[s].batch <= 1
          /\ obs.sends[s].single <= 1
          /\ obs.sends[s].single = 1 => obs.sends[s].failed
          /\ (obs.sends[s].failed /\ job.pc \notin {"retrying"}) => obs.sends[s].single = 1
          /\ (job.pc = "next" /\ ~scenario.dryRun /\ s \in ToWrite) =>
                 obs.sends[s].batch = 1
    /\ Cardinality({s \in Serials : obs.sends[s].failed /\ obs.sends[s].single = 0})
          <= writeBatchSize
    /\ job.pc = "retrying" =>
          \A i \in 1..Len(job.retry) :
              obs.sends[job.retry[i]].failed /\ obs.sends[job.retry[i]].single = 0

\* a first batch failed and its two items were retried one by one, then the
\* next batch was sent as a batch and succeeded
C22_FailedBatchRetriedThenNextBatch ==
    /\ job.pc = "next"
    /\ obs.sends[1] = [batch |-> 1, single |-> 1, failed |-> TRUE]
    /\ obs.sends[2] = [batch |-> 1, single |-> 1, failed |-> TRUE]
    /\ obs.sends[4] = [batch |-> 1, single |-> 0, failed |-> FALSE]
    /\ 4 \in table

MaxErrors == 3

\* names that this.errors inherits from Object.prototype: this.errors[name]
\* is a function (or the prototype object), truthy and without push
PrototypeKeys == {"constructor", "toString"}

\* the category names the callers pass
CategoryNames == Categories \cup {"custom"} \cup PrototypeKeys

\* details.serial; 0 is falsy
ErrorSerials == 0..1

\* Flatten the collections in the order of Object.entries(this.errors)
CategoryOrder == <<"fetchMetadata", "pinMetadata", "pinImage", "databaseWrite",
                   "gatewayTimeout", "invalidCID", "other">>

\* start(): counters and collections reset
start(x) == NewContext

\* this.errors[category]: an own collection, an inherited member, or undefined
errorsLookup(category) ==
    IF category \in Categories THEN "array"
    ELSE IF category \in PrototypeKeys THEN "inherited"
    ELSE "undefined"

\* recordCategorizedError(category, details): push to the named collection,
\* or to other with the category as tag; push on an inherited member throws
\* a TypeError before errorSerials is touched
recordCategorized(x, category, serial) ==
    LET called == [x EXCEPT !.calls = @ + 1]
        legacy(y) == IF serial /= 0
                     THEN [y EXCEPT !.errorSerials = Append(@, serial)] ELSE y
    IN  CASE errorsLookup(category) = "array" ->
                legacy([called EXCEPT !.errors[category] =
                                         Append(@, [serial |-> serial, category |-> NULL])])
          [] errorsLookup(category) = "inherited" -> called
          [] OTHER ->
                legacy([called EXCEPT !.errors["other"] =
                                         Append(@, [serial |-> serial, category |-> category])])

RECURSIVE errorCount(_, _)
errorCount(x, i) ==
    IF i > Len(CategoryOrder) THEN 0
    ELSE Len(x.errors[CategoryOrder[i]]) + errorCount(x, i + 1)

\* Object.values(this.errors).reduce((sum, arr) => sum + arr.length, 0)
getTotalErrorCount(x) == errorCount(x, 1)

RECURSIVE flatErrors(_, _)
flatErrors(x, i) ==
    IF i > Len(CategoryOrder) THEN <<>>
    ELSE LET c == CategoryOrder[i] IN
         [k \in 1..Len(x.errors[c]) |->
            [category |-> IF x.errors[c][k].category = NULL THEN c
                          ELSE x.errors[c][k].category,
             serial |-> x.errors[c][k].serial]] \o flatErrors(x, i + 1)

\* getAllErrors(): { category, ...error } of every entry; the final sort by
\* timestamp permutes the list
getAllErrors(x) == flatErrors(x, 1)

\* exportData of exportErrors()
exportData(x) ==
    [totalErrors |-> getTotalErrorCount(x), errors |-> getAllErrors(x)]

CallStart ==
    /\ context' = start(context)
    /\ UNCHANGED <<eval, gm, scenario, job, ctx, unit, cidMap, cidSet, cidDB, table, confirms, obs,
                   faults, proc, jobs>>

CallRecordCategorizedError(category, serial) ==
    /\ context.calls < MaxErrors
    /\ context' = recordCategorized(context, category, serial)
    /\ UNCHANGED <<eval, gm, scenario, job, ctx, unit, cidMap, cidSet, cidDB, table, confirms, obs,
                   faults, proc, jobs>>

ErrorInit ==
    /\ context = NewContext
    /\ eval = Eval0
    /\ gm = Gm0
    /\ Fresh
    /\ job = Job0
    /\ faults = 0
    /\ scenario = [ledger |-> "A", dryRun |-> FALSE]
    /\ cidDB = {"QmB"}
    /\ proc = Proc0
    /\ jobs = Jobs0

ErrorNext ==
    \/ CallStart
    \/ \E category \in CategoryNames, serial \in ErrorSerials :
           CallRecordCategorizedError(category, serial)

\* direct calls on one ProcessingContext
ErrorSpec == ErrorInit /\ [][ErrorNext]_vars

(***************************************************************************)
(* C24: every recordCategorizedError call adds exactly one entry, to the   *)
(* named category or to other, so getTotalErrorCount(), the length of      *)
(* getAllErrors() and the exported totalErrors equal the number of calls   *)
(* since the last start().                                                 *)
(***************************************************************************)
C24_ErrorCountEqualsCalls ==
    /\ getTotalErrorCount(context) = context.calls
    /\ Len(getAllErrors(context)) = context.calls
    /\ exportData(context).totalErrors = context.calls

(***************************************************************************)
(* extractCIDFromUrl called directly on reference strings.                 *)
(***************************************************************************)
\* tokens of a reference string
MaxRefLen == 4

\* example.com stands for any host that is no gateway (generic HTTP, S3)
RefWords == {"QmA", "ArX", "arweave.net", "example.com", "1.json"}

RefTokens == Schemes \cup Separators \cup RefWords \cup {".ipfs.dweb.link", DataUrl}

\* token sequences that spell a string token by token: a word ends at a '/'
\* or at the end, the subdomain suffix follows the first host label only,
\* and a data URL stands alone
WellFormed(url) ==
    /\ \A i \in 1..Len(url) :
        /\ url[i] = DataUrl => Len(url) = 1
        /\ url[i] = ".ipfs.dweb.link" => i = 3 /\ url[1] = "https://" /\ url[2] \in RefWords
        /\ (url[i] \in RefWords \cup {".ipfs.dweb.link"} /\ i < Len(url)) =>
              \/ url[i + 1] \in Separators
              \/ url[i] \in RefWords /\ url[i + 1] = ".ipfs.dweb.link"

\* the well-formed strings of at most n tokens
RECURSIVE TokenStrings(_)
TokenStrings(n) ==
    IF n = 0 THEN {<<>>}
    ELSE LET S == TokenStrings(n - 1) IN
         S \cup {u \in {Append(s, t) : s \in S, t \in RefTokens} : WellFormed(u)}

\* the string arguments: the empty string and the reference strings
Refs == TokenStrings(MaxRefLen)

CallExtractCID ==
    /\ eval.fn = "extractCIDFromUrl"
    /\ ~eval.done
    /\ eval' = [eval EXCEPT !.res = extractCIDFromUrl(eval.arg), !.done = TRUE]
    /\ UNCHANGED <<context, gm, scenario, job, ctx, unit, cidMap, cidSet, cidDB, table, confirms,
                   obs, faults, proc, jobs>>

ExtractInit ==
    /\ context = NewContext
    /\ gm = Gm0
    /\ \/ eval = [Eval0 EXCEPT !.fn = "extractCIDFromUrl"]     \* null or undefined
       \/ \E url \in Refs : eval = [Eval0 EXCEPT !.fn = "extractCIDFromUrl", !.arg = url]
    /\ Fresh
    /\ job = Job0
    /\ faults = 0
    /\ scenario = [ledger |-> "A", dryRun |-> FALSE]
    /\ cidDB = {"QmB"}
    /\ proc = Proc0
    /\ jobs = Jobs0

ExtractNext == CallExtractCID

\* one call of extractCIDFromUrl
ExtractSpec == ExtractInit /\ [][ExtractNext]_vars

\* the rules in the order of the claim
RuleOrder == <<"ar", "arGateway", "ipfs", "ipfsPath", "subdomain", "hcs", "bare">>

ruleMatches(r, url) ==
    CASE r = "ar" -> arPrefix(url)
      [] r = "arGateway" -> arGateway(url)
      [] r = "ipfs" -> ipfsPrefix(url)
      [] r = "ipfsPath" -> ipfsPathHits(url) /= {}
      [] r = "subdomain" -> subdomain(url)
      [] r = "hcs" -> hcs(url)
      [] OTHER -> bareCID(url)

ruleYields(r, url) ==
    CASE r \in {"ar", "ipfs"} -> firstSegment(Tail(url))
      [] r = "arGateway" -> arGatewayId(url)
      [] r = "ipfsPath" -> ipfsPathId(url)
      [] r = "subdomain" -> url[2]
      [] r = "hcs" -> lastSegment(url)
      [] OTHER -> firstSegment(url)

\* generic HTTP and S3 URLs, data URLs, plain text
GenericRefs ==
    {<<"https://", "example.com">>, <<"https://", "example.com", "/", "1.json">>,
     <<DataUrl>>, <<"example.com">>, <<"1.json">>}

(***************************************************************************)
(* C25: extractCIDFromUrl applies its rules in the order ar:// prefix,     *)
(* Arweave gateway host, ipfs:// prefix, /ipfs/<id> path, <id>.ipfs.<host> *)
(* subdomain, hcs:// topic, bare CID; the first rule that matches alone    *)
(* determines the result, also when a later rule would yield something     *)
(* else; the result is null for null, undefined and empty input, when no   *)
(* rule matches, and for generic HTTP, S3 and data URLs.                   *)
(***************************************************************************)
C25_FirstMatchingRuleDecides ==
    (eval.fn = "extractCIDFromUrl" /\ eval.done) =>
        LET url == eval.arg
            hits == IF url = NULL \/ url = <<>> THEN {}
                    ELSE {i \in 1..Len(RuleOrder) : ruleMatches(RuleOrder[i], url)}
        IN  /\ hits = {} => eval.res = NULL
            /\ hits /= {} =>
                  eval.res = ruleYields(RuleOrder[CHOOSE i \in hits : \A j \in hits : i <= j],
                                        url)
            /\ (url /= NULL /\ url \in GenericRefs) => eval.res = NULL

\* an ipfs:// wrapper around a gateway path: the prefix rule yields the empty
\* first segment, the path rule that would yield QmA is not consulted
C25_WrapperHidesGatewayPath ==
    /\ eval.fn = "extractCIDFromUrl" /\ eval.done
    /\ eval.res = ""
    /\ eval.arg /= NULL
    /\ eval.arg = <<"ipfs://", "/ipfs/", "QmA">>
    /\ ipfsPathId(eval.arg) = "QmA"

(***************************************************************************)
(* isValidCID and isValidArweaveCID called directly on one argument.       *)
(***************************************************************************)
\* how far the lengths tried lie around the lengths the patterns ask for
Slack == 2

TextLengths ==
    (0..Slack) \cup {n + d : n \in {43, 46, 59}, d \in 0..Slack}
               \cup {n - d : n \in {43, 46, 59}, d \in 0..Slack}

\* the strings: a beginning, a length that has room for it, and at most as
\* many kinds of characters as there are characters after the beginning
Texts ==
    {s \in [head : {"", "Qm", "b", "a", "!"}, len : TextLengths, body : SUBSET CharKinds] :
        /\ s.head = "" <=> s.len = 0
        /\ s.len >= HeadLen(s.head)
        /\ Cardinality(s.body) <= s.len - HeadLen(s.head)
        /\ s.len > HeadLen(s.head) => s.body /= {}}

\* the validators not yet called on the argument
Validate0(input, text) ==
    [fn |-> "validators", input |-> input, arg |-> text, called |-> {}, accepts |-> {}]

ValidateInit ==
    /\ context = NewContext
    /\ gm = Gm0
    /\ \/ eval = Validate0("null", NullText)
       \/ eval = Validate0("undefined", UndefinedText)
       \/ \E s \in Texts : eval = Validate0("string", s)
    /\ Fresh
    /\ job = Job0
    /\ faults = 0
    /\ scenario = [ledger |-> "A", dryRun |-> FALSE]
    /\ cidDB = {"QmB"}
    /\ proc = Proc0
    /\ jobs = Jobs0

Validated(f, result) ==
    /\ eval.fn = "validators"
    /\ f \notin eval.called
    /\ eval' = [eval EXCEPT !.called = @ \cup {f},
                            !.accepts = IF result THEN @ \cup {f} ELSE @]
    /\ UNCHANGED <<context, gm, scenario, job, ctx, unit, cidMap, cidSet, cidDB, table, confirms,
                   obs, faults, proc, jobs>>

CallIsValidCID == Validated("isValidCID", cidPattern(eval.arg))

CallIsValidArweaveCID == Validated("isValidArweaveCID", arweavePattern(eval.arg))

ValidateNext == CallIsValidCID \/ CallIsValidArweaveCID

\* the two validators applied to one argument
ValidateSpec == ValidateInit /\ [][ValidateNext]_vars

\* the argument is a string of only the given kinds of characters after its
\* beginning
Over(kinds) == eval.input = "string" /\ eval.arg.body \subseteq kinds

FAILURE_PENALTY_TIME == 60000

RECURSIVE gcd(_, _)
gcd(a, b) == IF b = 0 THEN a ELSE gcd(b, a % b)

\* the fraction n/d in lowest terms
Frac(n, d) == LET g == gcd(n, d) IN [n |-> n \div g, d |-> d \div g]

Plus(x, y) == Frac(x.n * y.d + y.n * x.d, x.d * y.d)

Times(x, y) == Frac(x.n * y.n, x.d * y.d)

Less(x, y) == x.n * y.d < y.n * x.d

\* gateways.map(url => ({ url, successCount: 0, ... })); 0 stands for the
\* null of lastSuccess and lastFailure, Date.now() being positive
newGateway(url) ==
    [url |-> url, successCount |-> 0, failCount |-> 0, totalResponseTime |-> 0,
     avgResponseTime |-> Frac(0, 1), lastSuccess |-> 0, lastFailure |-> 0]

newGateways(gateways) == [i \in 1..Len(gateways) |-> newGateway(gateways[i])]

\* totalAttempts > 0 ? successCount / totalAttempts : 0.5
successRate(g) ==
    IF g.successCount + g.failCount > 0
    THEN Frac(g.successCount, g.successCount + g.failCount)
    ELSE Frac(1, 2)

\* a penalty that never lapses once a failure was recorded
timePenaltyForever(g, now) == IF g.lastFailure /= 0 THEN Frac(1, 2) ELSE Frac(1, 1)

\* 0.5 while the last failure is less than FAILURE_PENALTY_TIME old, else 1
timePenalty(g, now) ==
    IF g.lastFailure /= 0 /\ now - g.lastFailure < FAILURE_PENALTY_TIME
    THEN Frac(1, 2) ELSE Frac(1, 1)

\* Math.max(0, 1 - avgResponseTime / 10000) with avgResponseTime =
\* totalResponseTime / successCount
latencyScore(g) ==
    IF g.totalResponseTime >= 10000 * g.successCount THEN Frac(0, 1)
    ELSE Frac(10000 * g.successCount - g.totalResponseTime, 10000 * g.successCount)

\* avgResponseTime > 0 ? Math.max(0, 1 - avgResponseTime / 10000) : 0.5;
\* avgResponseTime is 0 until a success with a positive response time
responseScore(g) ==
    LET avg == g.avgResponseTime IN
    IF avg.n > 0
    THEN IF avg.n >= 10000 * avg.d THEN Frac(0, 1)
         ELSE Frac(10000 * avg.d - avg.n, 10000 * avg.d)
    ELSE Frac(1, 2)

\* (successRate * 0.6 + responseScore * 0.4) * timePenalty
score(g, now) ==
    Times(Plus(Times(successRate(g), Frac(6, 10)), Times(responseScore(g), Frac(4, 10))),
          timePenalty(g, now))

\* what the map of getBestGateway computes for every entry
scoredOf(pool, now) ==
    [i \in 1..Len(pool) |->
        [successRate |-> successRate(pool[i]), responseScore |-> responseScore(pool[i]),
         score |-> score(pool[i], now)]]

\* a sort step that puts an entry in front of the entries with an equal score
insertBeforeTies(order, i, scored) ==
    LET k == Cardinality({p \in 1..Len(order) :
                            Less(scored[i].score, scored[order[p]].score)})
    IN  SubSeq(order, 1, k) \o <<i>> \o SubSeq(order, k + 1, Len(order))

\* one step of the stable sort by descending score: entry i goes behind the
\* entries whose score is not less than its own
insertByScore(order, i, scored) ==
    LET k == Cardinality({p \in 1..Len(order) :
                            ~Less(scored[order[p]].score, scored[i].score)})
    IN  SubSeq(order, 1, k) \o <<i>> \o SubSeq(order, k + 1, Len(order))

RECURSIVE sortScored(_, _)
\* scored.sort((a, b) => b.score - a.score) on the first n entries
sortScored(scored, n) ==
    IF n = 0 THEN <<>> ELSE insertByScore(sortScored(scored, n - 1), n, scored)

\* scored[0].gateway after the sort: the position of the entry in the pool
bestEntry(pool, now) == sortScored(scoredOf(pool, now), Len(pool))[1]

\* getBestGateway(): scored[0].gateway.url
getBestGateway(pool, now) == pool[bestEntry(pool, now)].url

\* this.gateways.find(g => g.url === url): the first entry with that url, 0
\* when there is none
findGateway(pool, url) ==
    IF \E i \in 1..Len(pool) : pool[i].url = url
    THEN CHOOSE i \in 1..Len(pool) :
            pool[i].url = url /\ \A j \in 1..(i - 1) : pool[j].url /= url
    ELSE 0

\* a recordSuccess that averages the old average with the new response time
gatewayRecordSuccessHalving(pool, url, responseTime, now) ==
    LET i == findGateway(pool, url) IN
    IF i = 0 THEN pool
    ELSE [pool EXCEPT ![i].successCount = @ + 1,
                      ![i].totalResponseTime = @ + responseTime,
                      ![i].avgResponseTime = Times(Plus(@, Frac(responseTime, 1)), Frac(1, 2)),
                      ![i].lastSuccess = now]

\* recordSuccess(url, responseTime) of GatewayManager
gatewayRecordSuccess(pool, url, responseTime, now) ==
    LET i == findGateway(pool, url) IN
    IF i = 0 THEN pool
    ELSE [pool EXCEPT ![i].successCount = @ + 1,
                      ![i].totalResponseTime = @ + responseTime,
                      ![i].avgResponseTime =
                          Frac(pool[i].totalResponseTime + responseTime,
                               pool[i].successCount + 1),
                      ![i].lastSuccess = now]

\* recordFailure(url) of GatewayManager
gatewayRecordFailure(pool, url, now) ==
    LET i == findGateway(pool, url) IN
    IF i = 0 THEN pool
    ELSE [pool EXCEPT ![i].failCount = @ + 1, ![i].lastFailure = now]

(***************************************************************************)
(* A GatewayManager of two endpoints with a history, called directly.      *)
(***************************************************************************)
\* record calls made on the manager
MaxRecords == 1

\* times the penalty time passes between two calls or two attempts
MaxTicks == 1

TestGateways == << <<"gwA">>, <<"gwB">> >>

\* Date.now() at the first call
Now0 == 100000

\* what an endpoint can have recorded: no, one or ten successes and failures,
\* response times of 0 ms, 50 ms or 10 s each, the last failure just now or
\* more than the penalty time ago
Histories(url) ==
    {[url |-> url, successCount |-> s, failCount |-> f, totalResponseTime |-> s * t,
      avgResponseTime |-> IF s > 0 THEN Frac(t, 1) ELSE Frac(0, 1),
      lastSuccess |-> IF s > 0 THEN Now0 ELSE 0, lastFailure |-> l] :
        s \in {0, 1, 10}, f \in {0, 1, 10}, t \in {0, 50, 10000},
        l \in {0, Now0, Now0 - FAILURE_PENALTY_TIME}}

ReachableHistory(g) ==
    /\ g.failCount = 0 <=> g.lastFailure = 0
    /\ g.successCount = 0 => g.totalResponseTime = 0

ScoreInit ==
    /\ context = NewContext
    /\ eval = Eval0
    /\ \E a \in Histories(TestGateways[1]), b \in Histories(TestGateways[2]) :
        /\ ReachableHistory(a) /\ ReachableHistory(b)
        /\ gm = [type |-> "test", gateways |-> <<a, b>>, now |-> Now0, records |-> 0,
                 best |-> <<>>, scored |-> <<>>]
    /\ Fresh
    /\ job = Job0
    /\ faults = 0
    /\ scenario = [ledger |-> "A", dryRun |-> FALSE]
    /\ cidDB = {"QmB"}
    /\ proc = Proc0
    /\ jobs = Jobs0

CallGetBestGateway ==
    /\ gm.type = "test"
    /\ gm.best = <<>>
    /\ gm' = [gm EXCEPT !.best = getBestGateway(gm.gateways, gm.now),
                        !.scored = scoredOf(gm.gateways, gm.now)]
    /\ UNCHANGED <<context, eval, scenario, job, ctx, unit, cidMap, cidSet, cidDB, table,
                   confirms, obs, faults, proc, jobs>>

CallRecordSuccess(url, responseTime) ==
    /\ gm.type = "test"
    /\ gm.records < MaxRecords
    /\ gm' = [gm EXCEPT !.gateways = gatewayRecordSuccess(@, url, responseTime, gm.now),
                        !.records = @ + 1, !.best = <<>>, !.scored = <<>>]
    /\ UNCHANGED <<context, eval, scenario, job, ctx, unit, cidMap, cidSet, cidDB, table,
                   confirms, obs, faults, proc, jobs>>

CallRecordFailure(url) ==
    /\ gm.type = "test"
    /\ gm.records < MaxRecords
    /\ gm' = [gm EXCEPT !.gateways = gatewayRecordFailure(@, url, gm.now),
                        !.records = @ + 1, !.best = <<>>, !.scored = <<>>]
    /\ UNCHANGED <<context, eval, scenario, job, ctx, unit, cidMap, cidSet, cidDB, table,
                   confirms, obs, faults, proc, jobs>>

\* the penalty time passes without a call on the manager
Elapse ==
    /\ gm.type = "test"
    /\ gm.now < Now0 + MaxTicks * FAILURE_PENALTY_TIME
    /\ gm' = [gm EXCEPT !.now = @ + FAILURE_PENALTY_TIME, !.best = <<>>, !.scored = <<>>]
    /\ UNCHANGED <<context, eval, scenario, job, ctx, unit, cidMap, cidSet, cidDB, table,
                   confirms, obs, faults, proc, jobs>>

ScoreNext ==
    \/ CallGetBestGateway
    \/ Elapse
    \/ \E i \in 1..Len(TestGateways) :
        \/ \E responseTime \in {0, 50} : CallRecordSuccess(TestGateways[i], responseTime)
        \/ CallRecordFailure(TestGateways[i])

\* direct calls on a GatewayManager of two endpoints
ScoreSpec == ScoreInit /\ [][ScoreNext]_vars

\* getBestGateway has returned and nothing was recorded since
Chosen == gm.type = "test" /\ gm.best /= <<>>

(***************************************************************************)
(* C29: getBestGateway returns the url of an entry whose score             *)
(* (successRate*0.6 + responseScore*0.4)*timePenalty is maximal, a tie     *)
(* going to the earliest entry; an entry with 10 successes, no failure and *)
(* 50 ms on average is chosen over one with no success and 10 failures.    *)
(***************************************************************************)
C29_BestScoreEarliestWins ==
    Chosen =>
        LET pool == gm.gateways IN
        /\ \E i \in 1..Len(pool) :
            /\ gm.best = pool[i].url
            /\ \A j \in 1..Len(pool) : ~Less(gm.scored[i].score, gm.scored[j].score)
            /\ \A j \in 1..(i - 1) : Less(gm.scored[j].score, gm.scored[i].score)
        /\ \A i, j \in 1..Len(pool) :
              ( /\ pool[i].successCount = 10 /\ pool[i].failCount = 0
                /\ pool[i].totalResponseTime = 500
                /\ pool[j].successCount = 0 /\ pool[j].failCount = 10 )
              => gm.best = pool[i].url

\* the second endpoint has 10 successes of 50 ms on average, the first has
\* 10 failures and no success: the second is returned
C29_ReliableChosenOverFailing ==
    /\ Chosen
    /\ gm.gateways[2].successCount = 10 /\ gm.gateways[2].failCount = 0
    /\ gm.gateways[2].totalResponseTime = 500
    /\ gm.gateways[1].successCount = 0 /\ gm.gateways[1].failCount = 10
    /\ gm.best = <<"gwB">>

(***************************************************************************)
(* C30: in the score getBestGateway computes, responseScore is             *)
(* max(0, 1 - avgResponseTime/10000) for every entry with at least one     *)
(* recorded success, also when the measured latencies are 0 ms, and the    *)
(* default 0.5 for an entry with none; successRate is successCount /       *)
(* attempts for an entry with attempts and the default 0.5 without.        *)
(***************************************************************************)
C30_ResponseScoreFromLatency ==
    Chosen =>
        \A i \in 1..Len(gm.gateways) :
            LET g == gm.gateways[i] IN
            /\ g.successCount > 0 => gm.scored[i].responseScore = latencyScore(g)
            /\ g.successCount = 0 => gm.scored[i].responseScore = Frac(1, 2)
            /\ g.successCount + g.failCount > 0 =>
                  gm.scored[i].successRate = Frac(g.successCount, g.successCount + g.failCount)
            /\ g.successCount + g.failCount = 0 => gm.scored[i].successRate = Frac(1, 2)

(***************************************************************************)
(* fetchIPFSJson attempts through the configured gateway pools: the ipfs   *)
(* and the arweave branch with the GatewayManager of the context.          *)
(***************************************************************************)
\* attempts made through one manager
MaxAttempts == 5

\* config.ipfs.gateways
ipfsGateways ==
    << <<"https://", "cloudflare-ipfs.com", "/ipfs/">>,
       <<"https://", "ipfs.eth.aragon.network", "/ipfs/">>,
       <<"https://", "ipfs.io", "/ipfs/">>,
       <<"https://", "ipfs.eternum.io", "/ipfs/">>,
       <<"https://", "cloudflare-ipfs.com", "/ipfs/">>,
       <<"dweb">> >>

\* config.arweave.gateways
arweaveGateways ==
    << <<"https://", "arweave.net", "/">>, <<"https://", "ar-io.dev", "/">>,
       <<"https://", "permagate.io", "/">>, <<"https://", "arweave.developerdao.com", "/">> >>

\* the ipfsUrl of the call: an ipfs reference whose identifier matches no CID
\* pattern (so no existence query is made), or an Arweave reference
FetchUrl(type) ==
    IF type = "ipfs" THEN <<"ipfs://", "notACid", "/", "1.json">> ELSE <<"ar://", "ArX">>

\* ipfsUrl.replace(/^ar:\/\/|.../, '') and ipfsUrl.replace(/^ipfs:\/\/|.../, '')
stripScheme(ipfsUrl) == IF ipfsUrl[1] \in {"ar://", "ipfs://"} THEN Tail(ipfsUrl) ELSE ipfsUrl

\* the url the attempt requests
gatewayUrl(type, gateway, ipfsUrl) ==
    IF type = "arweave" THEN gateway \o stripScheme(ipfsUrl)
    ELSE IF gateway = <<"dweb">>
         THEN <<"https://", stripScheme(ipfsUrl)[1], ".ipfs.dweb.link", "/">>
                  \o Tail2(stripScheme(ipfsUrl), 2)
         ELSE gateway \o ipfsUrl

\* url.split('/ipfs/')[0] + '/ipfs/'
ipfsKey(url) ==
    LET hits == {i \in 1..Len(url) : url[i] = "/ipfs/"} IN
    IF hits = {} THEN url \o <<"/ipfs/">>
    ELSE SubSeq(url, 1, (CHOOSE i \in hits : \A j \in hits : i <= j) - 1) \o <<"/ipfs/">>

\* url.split('/')[0] + '//' + url.split('/')[2] + '/'
arweaveKey(url) == <<url[1], url[2], "/">>

statsKey(type, url) == IF type = "ipfs" THEN ipfsKey(url) ELSE arweaveKey(url)

\* what fetchWithTimeout(url) brings: status 200, another status, or a
\* network error or timeout
AttemptOutcomes == {"ok", "status", "error"}

\* ms between startTime and the outcome
Durations == {50}

Fetch0(type) ==
    [type |-> type, ipfsUrl |-> FetchUrl(type),
     gateways |-> newGateways(IF type = "ipfs" THEN ipfsGateways ELSE arweaveGateways),
     now |-> Now0, attempts |-> 0, ticks |-> 0, phase |-> "idle", startTime |-> 0,
     endTime |-> 0, used |-> 0, url |-> <<>>, before |-> <<>>, outcome |-> "none",
     max |-> MaxAttempts, tried |-> {}]

GatewayInit ==
    /\ context = NewContext
    /\ eval = Eval0
    /\ \E type \in {"ipfs", "arweave"} : gm = Fetch0(type)
    /\ Fresh
    /\ job = Job0
    /\ faults = 0
    /\ scenario = [ledger |-> "A", dryRun |-> FALSE]
    /\ cidDB = {"QmB"}
    /\ proc = Proc0
    /\ jobs = Jobs0

Pooled == gm.type \in {"ipfs", "arweave"}

\* fetchIPFSJson up to 'await fetchWithTimeout(url)'
SelectGateway ==
    /\ Pooled
    /\ gm.phase = "idle"
    /\ gm.attempts < gm.max
    /\ gm' = [gm EXCEPT !.phase = "fetching", !.startTime = gm.now,
                        !.tried = @ \cup {getBestGateway(gm.gateways, gm.now)},
                        !.used = bestEntry(gm.gateways, gm.now),
                        !.url = gatewayUrl(gm.type, getBestGateway(gm.gateways, gm.now),
                                           gm.ipfsUrl),
                        !.before = gm.gateways,
                        !.attempts = @ + 1]
    /\ UNCHANGED <<context, eval, scenario, job, ctx, unit, cidMap, cidSet, cidDB, table,
                   confirms, obs, faults, proc, jobs>>

\* the outcome of fetchWithTimeout(url) and the code up to the sleep before
\* the next attempt, or up to 'return res.json()'
FetchOutcome(outcome, duration) ==
    /\ Pooled
    /\ gm.phase = "fetching"
    /\ LET now == gm.now + duration
           key == statsKey(gm.type, gm.url)
       IN  gm' = [gm EXCEPT
                    !.now = now, !.endTime = now, !.phase = "idle", !.outcome = outcome,
                    !.gateways =
                        CASE outcome = "status" -> gatewayRecordFailure(@, key, now)
                          [] outcome = "ok" ->
                                gatewayRecordSuccess(@, key, now - gm.startTime, now)
                          [] OTHER -> @]
    /\ UNCHANGED <<context, eval, scenario, job, ctx, unit, cidMap, cidSet, cidDB, table,
                   confirms, obs, faults, proc, jobs>>

\* time passes between two fetches
Tick ==
    /\ Pooled
    /\ gm.phase = "idle"
    /\ gm.ticks < MaxTicks
    /\ gm' = [gm EXCEPT !.now = @ + FAILURE_PENALTY_TIME, !.ticks = @ + 1]
    /\ UNCHANGED <<context, eval, scenario, job, ctx, unit, cidMap, cidSet, cidDB, table,
                   confirms, obs, faults, proc, jobs>>

GatewayNext ==
    \/ SelectGateway
    \/ \E outcome \in AttemptOutcomes, duration \in Durations : FetchOutcome(outcome, duration)
    \/ Tick

\* fetch attempts through one GatewayManager
GatewaySpec == GatewayInit /\ [][GatewayNext]_vars

\* an attempt has ended with one of the outcomes and the next has not begun
Ended(outcomes) == Pooled /\ gm.phase = "idle" /\ gm.outcome \in outcomes

(***************************************************************************)
(* C27: after every failed fetch attempt through a pooled gateway, be it a *)
(* non-200 status, a network error or a timeout, recordFailure has been    *)
(* applied to the gateway that was used before the next attempt selects    *)
(* one: its failCount is one higher than before the attempt and its        *)
(* last-failure time is the time of the failure.                           *)
(***************************************************************************)
C27_FailureRecordedForUsedGateway ==
    Ended({"status", "error"}) =>
        /\ gm.gateways[gm.used].failCount = gm.before[gm.used].failCount + 1
        /\ gm.gateways[gm.used].lastFailure = gm.endTime

(***************************************************************************)
(* C28: a recorded fetch outcome (a 200 or another status) changes the     *)
(* statistics of exactly the pool entry that getBestGateway returned for   *)
(* the attempt and of no other entry, for every configured entry.          *)
(***************************************************************************)
C28_OnlyUsedEntryChanges ==
    Ended({"ok", "status"}) =>
        \A i \in 1..Len(gm.gateways) :
            gm.gateways[i] /= gm.before[i] <=> i = gm.used

(***************************************************************************)
(* C31: the score getBestGateway computes for an entry is half of          *)
(* successRate*0.6 + responseScore*0.4 while the entry's last failure is   *)
(* less than 60 seconds old and the whole of it otherwise, so the          *)
(* multiplier is 1 again once 60 seconds have passed without a new         *)
(* failure; the pool keeps all its entries, in their order.                *)
(***************************************************************************)
C31_PenaltyOnlyWithinWindow ==
    /\ gm.type = "test" =>
          /\ Len(gm.gateways) = Len(TestGateways)
          /\ \A i \in 1..Len(TestGateways) : gm.gateways[i].url = TestGateways[i]
    /\ Chosen =>
          \A i \in 1..Len(gm.gateways) :
              LET g == gm.gateways[i]
                  base == Plus(Times(gm.scored[i].successRate, Frac(6, 10)),
                               Times(gm.scored[i].responseScore, Frac(4, 10)))
              IN  gm.scored[i].score =
                      IF g.failCount > 0 /\ gm.now - g.lastFailure < 60000
                      THEN Times(base, Frac(1, 2)) ELSE base

\* the first endpoint failed, 60 seconds passed, and it is selected again
\* with its unhalved score while the second, which failed just now, is not
C31_FailedEntrySelectedAgain ==
    /\ Chosen
    /\ gm.now = Now0 + FAILURE_PENALTY_TIME
    /\ gm.gateways[1].failCount > 0
    /\ gm.gateways[1].lastFailure = Now0
    /\ gm.gateways[2].lastFailure = gm.now
    /\ gm.best = <<"gwA">>
    /\ Less(gm.scored[2].score, gm.scored[1].score)

(***************************************************************************)
(* recordSuccess and recordFailure called in any order on a new            *)
(* GatewayManager of two endpoints.                                        *)
(***************************************************************************)
\* record calls made on the new manager
MaxRecordCalls == 4

\* the responseTime arguments, in ms
ResponseTimes == {0, 50, 75}

Record0 ==
    [type |-> "record", gateways |-> newGateways(TestGateways), now |-> Now0,
     calls |-> 0, last |-> "none", before |-> newGateways(TestGateways)]

RecordInit ==
    /\ context = NewContext
    /\ eval = Eval0
    /\ gm = Record0
    /\ Fresh
    /\ job = Job0
    /\ faults = 0
    /\ scenario = [ledger |-> "A", dryRun |-> FALSE]
    /\ cidDB = {"QmB"}
    /\ proc = Proc0
    /\ jobs = Jobs0

\* gatewayManager.recordSuccess(url, responseTime), a millisecond later
RecordSuccessCall(url, responseTime) ==
    /\ gm.type = "record"
    /\ gm.calls < MaxRecordCalls
    /\ gm' = [gm EXCEPT !.gateways = gatewayRecordSuccess(@, url, responseTime, gm.now + 1),
                        !.before = gm.gateways, !.last = "recordSuccess",
                        !.now = @ + 1, !.calls = @ + 1]
    /\ UNCHANGED <<context, eval, scenario, job, ctx, unit, cidMap, cidSet, cidDB, table,
                   confirms, obs, faults, proc, jobs>>

\* gatewayManager.recordFailure(url), a millisecond later
RecordFailureCall(url) ==
    /\ gm.type = "record"
    /\ gm.calls < MaxRecordCalls
    /\ gm' = [gm EXCEPT !.gateways = gatewayRecordFailure(@, url, gm.now + 1),
                        !.before = gm.gateways, !.last = "recordFailure",
                        !.now = @ + 1, !.calls = @ + 1]
    /\ UNCHANGED <<context, eval, scenario, job, ctx, unit, cidMap, cidSet, cidDB, table,
                   confirms, obs, faults, proc, jobs>>

RecordNext ==
    \E i \in 1..Len(TestGateways) :
        \/ \E responseTime \in ResponseTimes : RecordSuccessCall(TestGateways[i], responseTime)
        \/ RecordFailureCall(TestGateways[i])

\* sequences of record calls on a new GatewayManager
RecordSpec == RecordInit /\ [][RecordNext]_vars

(***************************************************************************)
(* C32: after any sequence of recordSuccess and recordFailure calls, every *)
(* entry with successCount > 0 has avgResponseTime = totalResponseTime /   *)
(* successCount, and a recordFailure call leaves totalResponseTime,        *)
(* avgResponseTime and successCount of every entry as they were.           *)
(***************************************************************************)
C32_AverageIsTotalOverSuccesses ==
    gm.type = "record" =>
        \A i \in 1..Len(gm.gateways) :
            LET g == gm.gateways[i] IN
            /\ g.successCount > 0 =>
                  g.avgResponseTime.n * g.successCount = g.totalResponseTime * g.avgResponseTime.d
            /\ gm.last = "recordFailure" =>
                  /\ g.totalResponseTime = gm.before[i].totalResponseTime
                  /\ g.avgResponseTime = gm.before[i].avgResponseTime
                  /\ g.successCount = gm.before[i].successCount

\* an endpoint with successes of 0, 50 and 75 ms, then a failure: the
\* average is 125/3 and the failure has left it alone
C32_AverageKeptAcrossFailure ==
    /\ gm.type = "record"
    /\ gm.last = "recordFailure"
    /\ gm.gateways[1].successCount = 3
    /\ gm.gateways[1].totalResponseTime = 125
    /\ gm.gateways[1].avgResponseTime = [n |-> 125, d |-> 3]
    /\ gm.gateways[1].failCount = 1

(***************************************************************************)
(* saveCIDCache, loadCIDCache and clearCIDCache called in any order on the *)
(* cidMap of tokenStaticDataHelper, with the snapshot file on disk.        *)
(***************************************************************************)
\* calls made on the cache
MaxSnapshotOps == 4

SnapIds == {"QmA", "QmB"}

\* the maps from identifiers to flags
FlagMaps == UNION {[S -> BOOLEAN] : S \in SUBSET SnapIds}

EmptyMap == [c \in {} |-> TRUE]

\* Array.from(cidMap.entries()): the [key, value] pairs
entriesOf(m) == {<<k, m[k]>> : k \in DOMAIN m}

\* JSON.stringify(entries): every flag becomes the text true or false
stringify(entries) == {<<p[1], IF p[2] THEN "true" ELSE "false">> : p \in entries}

\* JSON.parse(data) of a text that stringify wrote
parse(text) == {<<p[1], p[2] = "true">> : p \in text}

\* the file config.cache.cidCacheFile: missing, not parsable (cut off or
\* damaged), or the text of a save
NoFile == [kind |-> "missing", text |-> {}]

Garbage == [kind |-> "garbage", text |-> {}]

jsonFile(m) == [kind |-> "json", text |-> stringify(entriesOf(m))]

\* every entry is set with the flag TRUE, whatever the file holds
setKeys(m, entries) == [c \in DOMAIN m \cup {p[1] : p \in entries} |-> TRUE]

\* entries.forEach(([key, value]) => cidMap.set(key, value))
setEntries(m, entries) ==
    [c \in DOMAIN m \cup {p[1] : p \in entries} |->
        IF \E p \in entries : p[1] = c
        THEN (CHOOSE p \in entries : p[1] = c)[2]
        ELSE m[c]]

Snapshot0(file, origin) ==
    [fn |-> "snapshot", file |-> file, origin |-> origin, pc |-> "idle", snap |-> EmptyMap,
     before |-> EmptyMap, last |-> "none", result |-> "none", settled |-> "none",
     saves |-> 0, ops |-> 0]

\* the cache holds any map; the file is what an earlier run left
SnapshotInit ==
    /\ context = NewContext
    /\ gm = Gm0
    /\ cidMap \in FlagMaps
    /\ \/ \E file \in {NoFile, Garbage} : eval = Snapshot0(file, EmptyMap)
       \/ \E m \in FlagMaps : eval = Snapshot0(jsonFile(m), m)
    /\ ctx = Context0.c
    /\ unit = [s \in Serials |-> Unit0]
    /\ cidSet = {}
    /\ table = {}
    /\ confirms = {}
    /\ obs = Obs0
    /\ job = Job0
    /\ faults = 0
    /\ scenario = [ledger |-> "A", dryRun |-> FALSE]
    /\ cidDB = {"QmB"}
    /\ proc = Proc0
    /\ jobs = Jobs0

Snapshotting == eval.fn = "snapshot"

\* saveCIDCache up to 'await fs.writeFile(...)': a failing mkdir is caught
\* and logged; otherwise the entries are taken and the write is sent
SaveCIDCache(mkdirOk) ==
    /\ Snapshotting
    /\ eval.pc = "idle"
    /\ eval.ops < MaxSnapshotOps
    /\ eval' = IF mkdirOk
               THEN [eval EXCEPT !.pc = "writing", !.snap = cidMap, !.ops = @ + 1,
                                 !.last = "save", !.result = "none", !.settled = "none"]
               ELSE [eval EXCEPT !.ops = @ + 1, !.last = "save", !.result = "failed",
                                 !.settled = "resolved"]
    /\ UNCHANGED <<cidMap, context, gm, scenario, job, ctx, unit, cidSet, cidDB, table,
                   confirms, obs, faults, proc, jobs>>

\* writeFile settles: the text is on disk, or the write failed and left the
\* old file or a file that is cut off; the error is caught and logged
SaveSettle(outcome) ==
    /\ Snapshotting
    /\ eval.pc = "writing"
    /\ eval' = [eval EXCEPT
                  !.pc = "idle", !.settled = "resolved",
                  !.result = IF outcome = "written" THEN "saved" ELSE "failed",
                  !.saves = IF outcome = "written" THEN 1 ELSE @,
                  !.file = CASE outcome = "written" -> jsonFile(eval.snap)
                             [] outcome = "cut" -> Garbage
                             [] OTHER -> @,
                  !.origin = IF outcome = "written" THEN eval.snap ELSE @]
    /\ UNCHANGED <<cidMap, context, gm, scenario, job, ctx, unit, cidSet, cidDB, table,
                   confirms, obs, faults, proc, jobs>>

\* loadCIDCache: a failing mkdir or readFile and a text that does not parse
\* end in the catch; otherwise every entry of the file is set
LoadSnapshot(readOk) ==
    /\ Snapshotting
    /\ eval.pc = "idle"
    /\ eval.ops < MaxSnapshotOps
    /\ LET loads == readOk /\ eval.file.kind = "json" IN
       /\ cidMap' = IF loads THEN setEntries(cidMap, parse(eval.file.text)) ELSE cidMap
       /\ eval' = [eval EXCEPT !.ops = @ + 1, !.last = "load", !.before = cidMap,
                               !.result = IF loads THEN "loaded" ELSE "not loaded",
                               !.settled = "resolved"]
    /\ UNCHANGED <<context, gm, scenario, job, ctx, unit, cidSet, cidDB, table,
                   confirms, obs, faults, proc, jobs>>

\* clearCIDCache: cidMap.clear()
ClearCIDCache ==
    /\ Snapshotting
    /\ eval.ops < MaxSnapshotOps
    /\ cidMap' = EmptyMap
    /\ eval' = [eval EXCEPT !.ops = @ + 1, !.last = "clear"]
    /\ UNCHANGED <<context, gm, scenario, job, ctx, unit, cidSet, cidDB, table,
                   confirms, obs, faults, proc, jobs>>

\* cidMap.set(_cid, true) of checkCIDExists and of the preload, which may
\* run while a save waits for its write
SetTrue(id) ==
    /\ Snapshotting
    /\ eval.ops < MaxSnapshotOps
    /\ cidMap' = [c \in DOMAIN cidMap \cup {id} |-> IF c = id THEN TRUE ELSE cidMap[c]]
    /\ eval' = [eval EXCEPT !.ops = @ + 1, !.last = "set"]
    /\ UNCHANGED <<context, gm, scenario, job, ctx, unit, cidSet, cidDB, table,
                   confirms, obs, faults, proc, jobs>>

SnapshotNext ==
    \/ \E mkdirOk \in BOOLEAN : SaveCIDCache(mkdirOk)
    \/ \E outcome \in {"written", "failed", "cut"} : SaveSettle(outcome)
    \/ \E readOk \in BOOLEAN : LoadSnapshot(readOk)
    \/ ClearCIDCache
    \/ \E id \in SnapIds : SetTrue(id)

\* the cache and its snapshot file
SnapshotSpec == SnapshotInit /\ [][SnapshotNext]_vars

(***************************************************************************)
(* C33: a loadCIDCache into an empty cache that reads the file of a save   *)
(* leaves in the cache exactly the identifier-to-flag map that save took;  *)
(* with the file missing or not parsable loadCIDCache leaves the cache as  *)
(* it was; and neither loadCIDCache nor a failing saveCIDCache rejects.    *)
(***************************************************************************)
C33_SnapshotRoundTrip ==
    Snapshotting =>
        /\ eval.settled /= "rejected"
        /\ (eval.last = "load" /\ eval.result = "loaded" /\ eval.before = EmptyMap)
              => cidMap = eval.origin
        /\ (eval.last = "load" /\ eval.file.kind \in {"missing", "garbage"})
              => cidMap = eval.before /\ eval.result = "not loaded"
        /\ (eval.last = "save" /\ eval.result = "failed") => eval.settled = "resolved"

\* a save of this run wrote {QmA: false, QmB: true}, the cache was cleared,
\* and the load has brought both flags back
C33_FlagsRestoredAfterClear ==
    /\ Snapshotting
    /\ eval.saves = 1
    /\ eval.last = "load" /\ eval.result = "loaded" /\ eval.before = EmptyMap
    /\ DOMAIN cidMap = SnapIds
    /\ ~cidMap["QmA"] /\ cidMap["QmB"]

(***************************************************************************)
(* The backoff delay of fetchIPFSJson, evaluated depth by depth for one    *)
(* seed.                                                                   *)
(***************************************************************************)
\* config.processing.maxRetries
configuredRetries == 18

\* the largest seed tried
MaxSeed == 30

\* ((12 * (depth ** 2) * seed) % 100) * (depth % 5)
sleepTime(depth, seed) == ((12 * (depth * depth) * seed) % 100) * (depth % 5)

SleepInit ==
    /\ context = NewContext
    /\ gm = Gm0
    /\ \E seed \in 1..MaxSeed :
        eval = [fn |-> "sleepTime", seed |-> seed, depth |-> 0, res |-> sleepTime(0, seed),
                prev |-> 0]
    /\ Fresh
    /\ job = Job0
    /\ faults = 0
    /\ scenario = [ledger |-> "A", dryRun |-> FALSE]
    /\ cidDB = {"QmB"}
    /\ proc = Proc0
    /\ jobs = Jobs0

\* the delay for the next depth and the same seed; prev keeps the delay of
\* the depth before
EvalSleepTime ==
    /\ eval.fn = "sleepTime"
    /\ eval.depth < configuredRetries
    /\ eval' = [eval EXCEPT !.depth = @ + 1, !.prev = eval.res,
                            !.res = sleepTime(eval.depth + 1, eval.seed)]
    /\ UNCHANGED <<context, gm, scenario, job, ctx, unit, cidMap, cidSet, cidDB, table,
                   confirms, obs, faults, proc, jobs>>

SleepNext == EvalSleepTime

\* sleepTime for one seed and the depths 0..configuredRetries
SleepSpec == SleepInit /\ [][SleepNext]_vars

(***************************************************************************)
(* C34: for a fixed seed the delay ((12 * depth^2 * seed) mod 100) *       *)
(* (depth mod 5) grows strictly from each depth above 1 to the next, and   *)
(* at depth 2 it is not the delay of depth 0.                              *)
(***************************************************************************)
C34_DelayStrictlyIncreasing ==
    eval.fn = "sleepTime" =>
        /\ eval.depth > 2 => eval.res > eval.prev
        /\ eval.depth = 2 => eval.res /= sleepTime(0, eval.seed)

(***************************************************************************)
(* fetchIPFSJson called by processNFT for a reference that is fetched      *)
(* directly (no pool, no existence query), with the configured retry       *)
(* budget: the attempts and the sleeps between them.                       *)
(***************************************************************************)
Retry0(serial) ==
    [fn |-> "fetchIPFSJson", serial |-> serial, depth |-> 0, seed |-> serial,
     phase |-> "called", attempts |-> 0, sleepTime |-> 0, outcome |-> "none",
     slept |-> 0, ret |-> "none"]

\* fetchIPFSJson(ipfsString, 0, serialNum, ctx) of processNFT
RetryInit ==
    /\ context = NewContext
    /\ gm = Gm0
    /\ \E serial \in Serials : eval = Retry0(serial)
    /\ Fresh
    /\ job = Job0
    /\ faults = 0
    /\ scenario = [ledger |-> "A", dryRun |-> FALSE]
    /\ cidDB = {"QmB"}
    /\ proc = Proc0
    /\ jobs = Jobs0

\* fetchIPFSJson from its entry (the first call, or the recursive call when
\* the sleep is over) to 'await fetchWithTimeout(url)', or to 'return null'
RetryAttempt ==
    /\ eval.fn = "fetchIPFSJson"
    /\ eval.phase \in {"called", "sleeping"}
    /\ eval' = IF eval.depth >= configuredRetries
               THEN [eval EXCEPT !.phase = "done", !.ret = "null"]
               ELSE [eval EXCEPT !.phase = "fetching", !.depth = @ + 1, !.seed = @ + 1,
                                 !.attempts = @ + 1,
                                 !.sleepTime = sleepTime(eval.depth + 1, eval.seed + 1)]
    /\ UNCHANGED <<context, gm, scenario, job, ctx, unit, cidMap, cidSet, cidDB, table,
                   confirms, obs, faults, proc, jobs>>

\* fetchWithTimeout settles; the code up to the sleep or to 'return res.json()'
RetryOutcome(outcome) ==
    /\ eval.fn = "fetchIPFSJson"
    /\ eval.phase = "fetching"
    /\ eval' =
         CASE outcome = "ok" ->
                [eval EXCEPT !.phase = "done", !.outcome = outcome, !.ret = "json"]
           [] outcome = "status" ->
                [eval EXCEPT !.phase = "sleeping", !.outcome = outcome,
                             !.slept = eval.sleepTime]
           [] OTHER ->
                [eval EXCEPT !.phase = "sleeping", !.outcome = outcome,
                             !.slept = IF eval.depth > 8
                                       THEN eval.sleepTime + 225 * eval.depth
                                       ELSE eval.sleepTime + 30 * eval.depth]
    /\ UNCHANGED <<context, gm, scenario, job, ctx, unit, cidMap, cidSet, cidDB, table,
                   confirms, obs, faults, proc, jobs>>

RetryNext ==
    \/ RetryAttempt
    \/ \E outcome \in AttemptOutcomes : RetryOutcome(outcome)

\* one content fetch with its retries
RetrySpec == RetryInit /\ [][RetryNext]_vars

(***************************************************************************)
(* C35: the sleep before every retry of a content fetch, after a non-200   *)
(* status as after a network error or timeout, lasts the jittered delay    *)
(* plus 30*depth for depth <= 8 and plus 225*depth for depth > 8; the seed *)
(* starts from the serial number and grows by one with every attempt.      *)
(***************************************************************************)
C35_SleepHasLinearPenalty ==
    eval.fn = "fetchIPFSJson" =>
        /\ eval.seed = eval.serial + eval.attempts
        /\ eval.phase = "sleeping" =>
              eval.slept =
                  ((12 * (eval.depth * eval.depth) * eval.seed) % 100) * (eval.depth % 5)
                  + (IF eval.depth <= 8 THEN 30 * eval.depth ELSE 225 * eval.depth)

(***************************************************************************)
(* One fetchIPFSJson through the ipfs pool with the configured retry       *)
(* budget, every attempt of which gets a non-200 status.                   *)
(***************************************************************************)
PoolInit ==
    /\ context = NewContext
    /\ eval = Eval0
    /\ gm = [Fetch0("ipfs") EXCEPT !.max = configuredRetries]
    /\ Fresh
    /\ job = Job0
    /\ faults = 0
    /\ scenario = [ledger |-> "A", dryRun |-> FALSE]
    /\ cidDB = {"QmB"}
    /\ proc = Proc0
    /\ jobs = Jobs0

PoolNext ==
    \/ SelectGateway
    \/ \E duration \in Durations : FetchOutcome("status", duration)
    \/ Tick

\* attempts that all end with a non-200 status
PoolSpec == PoolInit /\ [][PoolNext]_vars

\* the gateways of config.ipfs.gateways
ConfiguredIpfs == {ipfsGateways[i] : i \in 1..Len(ipfsGateways)}

(***************************************************************************)
(* C36: when every attempt through the ipfs pool gets a non-200 status,    *)
(* each gateway configured in the pool has been attempted at least once    *)
(* by the time the retry budget of 18 attempts is used up.                 *)
(***************************************************************************)
C36_EveryGatewayTried ==
    (gm.type = "ipfs" /\ gm.max = configuredRetries /\ gm.attempts = gm.max)
        => gm.tried = ConfiguredIpfs

\* isComplete(): totalCompleted >= totalToProcess && totalToProcess > 0
isComplete(c) == c.totalCompleted >= c.totalToProcess /\ c.totalToProcess > 0

(***************************************************************************)
(* C37: in every state of a job totalCompleted <= totalToProcess, and      *)
(* isComplete() holds only when every serial that addToProcess counted     *)
(* (delivered, not deleted, not in the skip list) has been processed to a  *)
(* record.                                                                 *)
(***************************************************************************)
C37_CompletedWithinToProcess ==
    /\ ctx.totalCompleted <= ctx.totalToProcess
    /\ isComplete(ctx) =>
          \A s \in NewSerials : unit[s].pc = "resolved" /\ unit[s].out /= "none"

(***************************************************************************)
(* C38: within one run at most one pin-creation request (the POST of       *)
(* pinIPFS) is sent to the pinning service for any identifier, also when   *)
(* serials processed concurrently name the same metadata or image CID.     *)
(***************************************************************************)
C38_OnePinPostPerCid ==
    \A cid \in Identifiers : obs.pinPosts[cid] <= 1

(***************************************************************************)
(* deleteAllFailedPins of checkFileBaseStatus.js against a pinning service *)
(* that holds some failed pin requests and may fail any request.           *)
(***************************************************************************)
\* failed pin requests the service can hold
MaxPins == 4

RequestIds == 1..MaxPins

\* deleteAllFailedPins() is called: the first listing request is sent
DeleteInit ==
    /\ context = NewContext
    /\ gm = Gm0
    /\ \E failed \in SUBSET RequestIds :
        eval = [fn |-> "deleteAllFailedPins", pc |-> "listing", service |-> failed,
                results |-> <<>>, deleted |-> 0, ret |-> -1]
    /\ Fresh
    /\ job = Job0
    /\ faults = 0
    /\ scenario = [ledger |-> "A", dryRun |-> FALSE]
    /\ cidDB = {"QmB"}
    /\ proc = Proc0
    /\ jobs = Jobs0

\* the reply to axios.get(...?status=failed&limit=100): an error is caught
\* and ends the loop, an empty listing ends it, otherwise the first
\* deletePin request is sent
ListFailedReply(ok) ==
    /\ eval.fn = "deleteAllFailedPins"
    /\ eval.pc = "listing"
    /\ eval' = IF ~ok \/ eval.service = {}
               THEN [eval EXCEPT !.pc = "returned", !.ret = eval.deleted]
               ELSE [eval EXCEPT !.pc = "deleting", !.results = SortedSeq(eval.service)]
    /\ UNCHANGED <<context, gm, scenario, job, ctx, unit, cidMap, cidSet, cidDB, table,
                   confirms, obs, faults, proc, jobs>>

\* the reply to axios.delete of deletePin(item.requestid): success is
\* counted, a failure is logged; then the next item's request is sent, or
\* after the last item the next listing request
DeletePinReply(ok) ==
    /\ eval.fn = "deleteAllFailedPins"
    /\ eval.pc = "deleting"
    /\ eval' = [eval EXCEPT
                  !.service = IF ok THEN @ \ {Head(eval.results)} ELSE @,
                  !.deleted = IF ok THEN @ + 1 ELSE @,
                  !.results = Tail(@),
                  !.pc = IF Len(eval.results) = 1 THEN "listing" ELSE "deleting"]
    /\ UNCHANGED <<context, gm, scenario, job, ctx, unit, cidMap, cidSet, cidDB, table,
                   confirms, obs, faults, proc, jobs>>

DeleteNext ==
    \/ \E ok \in BOOLEAN : ListFailedReply(ok)
    \/ \E ok \in BOOLEAN : DeletePinReply(ok)

DeleteSpec == DeleteInit /\ [][DeleteNext]_vars

\* the service answers every request, and the event loop runs the code
\* that waits for the answer
DeleteLiveSpec == DeleteSpec /\ WF_vars(DeleteNext)

(***************************************************************************)
(* C39: deleteAllFailedPins returns, whatever the pinning service answers: *)
(* also when delete requests fail.                                         *)
(***************************************************************************)
C39_DeleteAllReturns == <>(eval.pc = "returned")

(***************************************************************************)
(* Loading the skip list: getStaticDataToken of tokenStaticDataHelper and  *)
(* SchemaWriter.getExistingSerials, page by page from the metadata table.  *)
(***************************************************************************)
\* rows a readItems answer holds at most (config.database.queryLimit and the
\* default limit of the store are 100)
queryLimit == 2

\* the largest serial stored
MaxStored == 4

Addresses == {"0.0.1", "0.0.2"}

\* the token whose skip list is loaded
Address == "0.0.1"

Loaders == {"getStaticDataToken", "getExistingSerials"}

\* the serials of the rows of the table which the filter lets through:
\* address _eq, and serial _gt maxSerial when a larger one was asked for,
\* leaving out the serial next to maxSerial
serialPageSkipping(rows, address, maxSerial) ==
    LET hits == {r[2] : r \in {q \in rows : q[1] = address /\ q[2] > maxSerial + 1}}
        sorted == SortedSeq(hits)
    IN  SubSeq(sorted, 1, Min(queryLimit, Len(sorted)))

\* readItems(table, {filter, sort: serial, limit}): the rows of the address,
\* with a serial above maxSerial when maxSerial > 0, in ascending order, a
\* page of them
serialPage(rows, address, maxSerial) ==
    LET hits == {r[2] : r \in {q \in rows : q[1] = address /\ (maxSerial > 0 => q[2] > maxSerial)}}
        sorted == SortedSeq(hits)
    IN  SubSeq(sorted, 1, Min(queryLimit, Len(sorted)))

RECURSIVE reduceMax(_, _)
\* data.reduce((max, item) => Math.max(max, item.serial), 0)
reduceMax(data, max) ==
    IF data = <<>> THEN max ELSE reduceMax(Tail(data), Max(max, Head(data)))

\* the loader is called and its first request is sent; the table holds
\* rows of the token and of another one, each serial of a token once
SkipInit ==
    /\ context = NewContext
    /\ gm = Gm0
    /\ \E loader \in Loaders, rows \in SUBSET (Addresses \X (1..MaxStored)) :
        eval = [fn |-> loader, rows |-> rows, pc |-> "reading", maxSerial |-> 0,
                gt |-> 0, serialList |-> <<>>, pages |-> 0]
    /\ Fresh
    /\ job = Job0
    /\ faults = 0
    /\ scenario = [ledger |-> "A", dryRun |-> FALSE]
    /\ cidDB = {"QmB"}
    /\ proc = Proc0
    /\ jobs = Jobs0

\* the reply of readItems: a rejected request leaves the loader by
\* exception; otherwise maxSerial and serialList take the page in, and an
\* empty page ends the loop while any other sends the next request
ReadSerialsReply(ok) ==
    /\ eval.fn \in Loaders
    /\ eval.pc = "reading"
    /\ LET data == serialPage(eval.rows, Address, eval.gt)
           maxSerial == IF Len(data) > 0 THEN reduceMax(data, 0) ELSE eval.maxSerial
       IN  eval' = IF ~ok
                   THEN [eval EXCEPT !.pc = "threw"]
                   ELSE [eval EXCEPT !.maxSerial = maxSerial,
                                     !.serialList = @ \o data,
                                     !.pages = @ + 1,
                                     !.gt = maxSerial,
                                     !.pc = IF Len(data) = 0 THEN "returned" ELSE "reading"]
    /\ UNCHANGED <<context, gm, scenario, job, ctx, unit, cidMap, cidSet, cidDB, table,
                   confirms, obs, faults, proc, jobs>>

SkipNext == \E ok \in BOOLEAN : ReadSerialsReply(ok)

SkipSpec == SkipInit /\ [][SkipNext]_vars

\* the store answers every request and the loader resumes on the answer
SkipLiveSpec == SkipSpec /\ WF_vars(SkipNext)

\* the serials the table holds for the token
StoredSerials == {r[2] : r \in {q \in eval.rows : q[1] = Address}}

(***************************************************************************)
(* C40: loading the skip list ends for every finite table, and when it     *)
(* returns its list holds every stored serial of the token exactly once;   *)
(* each request after the first asks for serials above the largest one     *)
(* seen so far, and the loop ends at the first empty page.                 *)
(***************************************************************************)
C40_SkipListLoadsEverySerialOnce ==
    /\ <>(eval.pc \in {"returned", "threw"})
    /\ [](eval.fn \in Loaders =>
            /\ eval.pc = "returned" => eval.serialList = SortedSeq(StoredSerials)
            /\ (eval.pc = "reading" /\ eval.serialList /= <<>>) =>
                  eval.gt = reduceMax(eval.serialList, 0)
            /\ eval.pages <= Len(eval.serialList) + 1)

\* the token has the serials 1..4 and the other token has rows too: the
\* list came back complete after two full pages and an empty one
C40_FourSerialsInThreePages ==
    /\ eval.fn \in Loaders
    /\ eval.pc = "returned"
    /\ eval.pages = 3
    /\ eval.serialList = <<1, 2, 3, 4>>
    /\ \E r \in eval.rows : r[1] /= Address

====
